---------------------------- MODULE Spec2Model ----------------------------
(***************************************************************************)
(* A model of propel, the Cloud Run deployment orchestrator.               *)
(*                                                                         *)
(* One run of one command (deploy pipeline, CLI deploy, secret set/delete/ *)
(* list, ci init, destroy, doctor) is modelled as a sequential process:    *)
(* every segment of code between two awaits of an external command is one  *)
(* action, and the external command itself is executed by the action Exec, *)
(* which answers from the state of the cloud control plane.  eject is      *)
(* modelled as a session of calls on one project directory.                *)
(***************************************************************************)
EXTENDS Integers, Sequences, FiniteSets, TLC

VARIABLES
    cmd,        \* the command this run executes
    inp,        \* the command's arguments and the local file system it sees
    cloud,      \* the state of the cloud control plane
    pc,         \* position of the run in its handler
    inflight,   \* the external commands issued and not yet completed
    answers,    \* the result of each call of log, NoResp until it completes
    log,        \* every executor call issued so far, in order
    shadow,     \* the calls of a twin run that differs only in the secret value
    ops,        \* the pipeline operations started so far, in order
    steps,      \* the report (DeployOutcome.steps) built so far
    out,        \* lines printed to the terminal so far
    loc,        \* the handler's local variables
    result,     \* NONE while running, then the value the handler returned
    fs          \* the recipe files of the project directory

vars ==
    <<cmd, inp, cloud, pc, inflight, answers, log, shadow, ops, steps, out, loc, result, fs>>

NONE == "<none>"

\* ----------------------------------------------------------------- bounds

\* Number of distinct secret names that may exist in Secret Manager.
MaxSecrets == 2

\* The control plane counts the versions of a secret up to this many.
MaxVersions == 2

\* A session of eject calls and file removals is followed for this many steps.
MaxCalls == 4

\* A build configuration lists up to this many extra packages, this many
\* included paths and this many environment entries.
MaxPackages == 2
MaxPaths == 2
MaxEnv == 2

\* A package has up to this many binary targets.
MaxBins == 2

\* An MCP server session serves this many tool invocations.
MaxInvocations == 3

\* ------------------------------------------------------------ value spaces

\* The names secrets are given, in the order the control plane lists them.
SecretNamePool == <<"DB_URL", "API_KEY", "TOKEN", "SALT">>

SecretNames == {SecretNamePool[i] : i \in 1..MaxSecrets}

\* The listing of a set of secrets, in the order the control plane prints it.
RECURSIVE ListingOf(_, _)
ListingOf(set, i) ==
    IF i > MaxSecrets THEN <<>>
    ELSE (IF SecretNamePool[i] \in set THEN <<SecretNamePool[i]>> ELSE <<>>)
         \o ListingOf(set, i + 1)

\* The values a secret may be set to.
SecretValues == {"hunter2", "s3cr3t"}

Range(s) == {s[i] : i \in DOMAIN s}

\* An argument is a string built by format!: the sequence of its parts.
Lit(s) == <<s>>

ProjectId == "proj"
Region == "us-central1"
ServiceName == "svc"
ProjectNumber == "123456"
ServiceUrl == "https://svc.run.app"
BundleDir == ".propel-bundle"

\* A file of the project directory: absent, present with its content (a
\* sequence of text pieces), or present but not readable as UTF-8 text.
NoFile == [exists |-> FALSE, readable |-> FALSE, content |-> <<>>]
File(content) == [exists |-> TRUE, readable |-> TRUE, content |-> content]
Unreadable == [exists |-> TRUE, readable |-> FALSE, content |-> <<>>]

\* --------------------------------------------------------- program constants

ARTIFACT_REPO_NAME == "propel"

\* The IAM roles of the CI deploy service account.
CI_SA_ROLES ==
    <<"roles/artifactregistry.writer", "roles/cloudbuild.builds.editor",
      "roles/iam.serviceAccountUser", "roles/run.admin", "roles/secretmanager.viewer",
      "roles/serviceusage.serviceUsageViewer", "roles/storage.objectAdmin", "roles/viewer">>

GH_SECRET_NAMES == <<"GCP_PROJECT_ID", "WIF_PROVIDER", "WIF_SERVICE_ACCOUNT">>

WIF_POOL_ID == "propel-github"
WIF_PROVIDER_ID == "github"
CI_SA_ID == "propel-deploy"

\* format!("{CI_SA_ID}@{gcp_project_id}.iam.gserviceaccount.com")
SaEmail(project) == <<CI_SA_ID, "@", project, ".iam.gserviceaccount.com">>

\* format!("projects/{project_number}/locations/global/workloadIdentityPools/...")
WifProvider(project_number) ==
    <<"projects/", project_number, "/locations/global/workloadIdentityPools/",
      WIF_POOL_ID, "/providers/", WIF_PROVIDER_ID>>

\* The APIs check_prerequisites probes, in the order it probes them.
PreflightApis ==
    <<"cloudbuild.googleapis.com", "run.googleapis.com", "secretmanager.googleapis.com">>

\* The APIs doctor requires.
DoctorApis ==
    <<"cloudbuild.googleapis.com", "run.googleapis.com",
      "secretmanager.googleapis.com", "artifactregistry.googleapis.com">>

AllApis == Range(PreflightApis) \cup Range(DoctorApis)

\* format!("{region}-docker.pkg.dev/{project}/{repo}/{service}:latest")
ImageTag(region, project, repo, service) ==
    <<region, "-docker.pkg.dev/", project, "/", repo, "/", service, ":latest">>

\* A recipe is a sequence of lines, a line the sequence of the text pieces
\* format! puts together; a path separator is a piece of its own.

\* BuildConfig.include: None, or Some(paths).
None == [some |-> FALSE, paths |-> <<>>]
Some(paths) == [some |-> TRUE, paths |-> paths]

\* BuildConfig::default().  env lists the entries of the map in the order the
\* map iterates over them.
BuildConfig_default ==
    [base_image |-> "rust:1.84-bookworm", runtime_image |-> "gcr.io/distroless/cc-debian12",
     extra_packages |-> <<>>, cargo_chef_version |-> "0.1.68", include |-> None,
     env |-> <<>>]

\* [String]::join(sep), as text pieces.
RECURSIVE join(_, _)
join(v, sep) ==
    IF v = <<>> THEN <<>>
    ELSE IF Len(v) = 1 THEN <<v[1]>>
    ELSE <<v[1], sep>> \o join(Tail(v), sep)

\* A mutant of extra_packages: the install line is written for an empty list
\* too.
extra_packages_Always(config) ==
    << <<"RUN apt-get update && apt-get install -y ">>
       \o join(config.extra_packages, " ") \o <<" && rm -rf /var/lib/apt/lists/*">> >>

\* render: `let extra_packages = if ... is_empty() { String::new() } else
\* { format!("RUN apt-get update && apt-get install -y {} && ...") }`.
extra_packages(config) ==
    IF config.extra_packages = <<>> THEN <<>>
    ELSE << <<"RUN apt-get update && apt-get install -y ">>
            \o join(config.extra_packages, " ") \o <<" && rm -rf /var/lib/apt/lists/*">> >>

\* str::trim_end_matches('/'): a path is the sequence of its names and
\* separators.
RECURSIVE trim_end_matches(_)
trim_end_matches(path) ==
    IF path # <<>> /\ path[Len(path)] = "/"
    THEN trim_end_matches(SubSeq(path, 1, Len(path) - 1))
    ELSE path

\* writeln!(out, "COPY {trimmed}/ ./{trimmed}/") for every included path.
RECURSIVE CopyEach(_)
CopyEach(paths) ==
    IF paths = <<>> THEN <<>>
    ELSE LET trimmed == trim_end_matches(paths[1]) IN
         << <<"COPY ">> \o trimmed \o <<"/", " ./">> \o trimmed \o <<"/">> >>
         \o CopyEach(Tail(paths))

\* A mutant of render_runtime_copies: the blanket copy is written whatever
\* include says.
render_runtime_copies_Blanket(config) ==
    << <<"COPY . .">> >> \o CopyEach(config.include.paths)

\* DockerfileGenerator::render_runtime_copies.
render_runtime_copies(config) ==
    IF ~config.include.some THEN << <<"COPY . .">> >>
    ELSE IF config.include.paths = <<>> THEN <<>>
    ELSE CopyEach(config.include.paths)

\* The keys an environment map may hold, in the ascending order of String.
KeyOrder == <<"APP_ENV", "LUA_DIR", "TEMPLATE_DIR", "ZONE">>

\* `a < b` of two keys.
key_lt(a, b) ==
    \E i, j \in DOMAIN KeyOrder : KeyOrder[i] = a /\ KeyOrder[j] = b /\ i < j

\* One key is put in its place in a sorted vector.
RECURSIVE insert_sorted(_, _)
insert_sorted(k, sorted) ==
    IF sorted = <<>> THEN <<k>>
    ELSE IF key_lt(k, sorted[1]) THEN <<k>> \o sorted
    ELSE <<sorted[1]>> \o insert_sorted(k, Tail(sorted))

\* A mutant of sort: the keys stay in the order the map yields them.
sort_Unsorted(keys) == keys

\* keys.sort().
RECURSIVE sort(_)
sort(keys) ==
    IF keys = <<>> THEN <<>> ELSE insert_sorted(keys[1], sort(Tail(keys)))

\* self.config.env.keys().collect() and self.config.env[key].
env_keys(env) == [i \in DOMAIN env |-> env[i][1]]
env_get(env, key) == (CHOOSE i \in DOMAIN env : env[i][1] = key) \* unique: a map
env_value(env, key) == env[env_get(env, key)][2]

\* DockerfileGenerator::render_env_directives.
render_env_directives(config) ==
    IF config.env = <<>> THEN <<>>
    ELSE LET keys == sort(env_keys(config.env)) IN
         [i \in DOMAIN keys |-> <<"ENV ", keys[i], "=", env_value(config.env, keys[i])>>]

Stage4 == <<"# === Stage 4: Runtime ===">>

\* DockerfileGenerator::render: the lines of the recipe.
render(config, meta, port) ==
    << <<"# === Base: cargo-chef installed once ===">>,
       <<"FROM ", config.base_image, " AS chef">>,
       <<"RUN cargo install cargo-chef --version ", config.cargo_chef_version, " --locked">>,
       <<"WORKDIR /app">>,
       <<"# === Stage 1: Planner ===">>,
       <<"FROM chef AS planner">>,
       <<"COPY . .">>,
       <<"RUN cargo chef prepare --recipe-path recipe.json">>,
       <<"# === Stage 2: Cacher (dependency build) ===">>,
       <<"FROM chef AS cacher">> >>
    \o extra_packages(config)
    \o << <<"COPY --from=planner /app/recipe.json recipe.json">>,
          <<"RUN cargo chef cook --release --recipe-path recipe.json">>,
          <<"# === Stage 3: Builder ===">>,
          <<"FROM chef AS builder">> >>
    \o extra_packages(config)
    \o << <<"COPY --from=cacher /app/target target">>,
          <<"COPY --from=cacher /usr/local/cargo /usr/local/cargo">>,
          <<"COPY . .">>,
          <<"RUN cargo build --release --bin ", meta.binary_name>>,
          Stage4,
          <<"FROM ", config.runtime_image>>,
          <<"COPY --from=builder /app/target/release/", meta.binary_name, " /usr/local/bin/app">>,
          <<"WORKDIR /app">> >>
    \o render_runtime_copies(config)
    \o render_env_directives(config)
    \o << <<"EXPOSE ", port>>, <<"CMD [\"app\"]">> >>

\* The recipe rendered from the default build configuration.
RenderedRecipe == render(BuildConfig_default, [binary_name |-> ServiceName], "8080")

\* A recipe its owner edited after ejecting it, and one written by hand.
EditedRecipe == RenderedRecipe \o << <<"ENV RUST_LOG=info">> >>
HandRecipe == << <<"FROM rust:1.85">>, <<"RUN cargo build">> >>

\* The recipes eject may be asked to write.
Recipes == {RenderedRecipe, EditedRecipe, HandRecipe}

\* format!("{project_number}-compute@developer.gserviceaccount.com")
ComputeSa(project_number) ==
    <<project_number, "-compute@developer.gserviceaccount.com">>

\* ------------------------------------------------------------ executor calls
\* A call handed to the command executor: the tool, the executor method (mode),
\* the argument vector and the bytes piped to standard input.  op names the
\* control-plane operation the arguments select.

GcloudCall(op, mode, argv, stdin) ==
    [tool |-> "gcloud", op |-> op, mode |-> mode, args |-> argv, stdin |-> stdin]

NoStdin == <<>>

CallVersion ==
    GcloudCall("version", "exec",
        <<Lit("version"), Lit("--format"), Lit("value(version)")>>, NoStdin)

\* doctor: `gcloud version`.
CallDoctorVersion == GcloudCall("doctor.version", "exec", <<Lit("version")>>, NoStdin)

\* doctor: `gcloud config get-value account`.
CallAccount ==
    GcloudCall("account", "exec", <<Lit("config"), Lit("get-value"), Lit("account")>>,
               NoStdin)

\* doctor: `gcloud billing projects describe P --format value(billingEnabled)`.
CallBillingDescribe(project) ==
    GcloudCall("billing.describe", "exec",
        <<Lit("billing"), Lit("projects"), Lit("describe"), Lit(project),
          Lit("--format"), Lit("value(billingEnabled)")>>, NoStdin)

CallAuth ==
    GcloudCall("auth", "exec",
        <<Lit("auth"), Lit("print-identity-token"), Lit("--quiet")>>, NoStdin)

CallProjectDescribe(project) ==
    GcloudCall("project.describe", "exec",
        <<Lit("projects"), Lit("describe"), Lit(project),
          Lit("--format"), Lit("value(name)")>>, NoStdin)

CallServicesList(project, api) ==
    GcloudCall("services.list", "exec",
        <<Lit("services"), Lit("list"), Lit("--project"), Lit(project),
          Lit("--filter"), <<"config.name=", api>>,
          Lit("--format"), Lit("value(config.name)")>>, NoStdin)

CallRepoDescribe(project, region, repo) ==
    GcloudCall("repo.describe", "exec",
        <<Lit("artifacts"), Lit("repositories"), Lit("describe"), Lit(repo),
          Lit("--project"), Lit(project), Lit("--location"), Lit(region)>>, NoStdin)

CallRepoCreate(project, region, repo) ==
    GcloudCall("repo.create", "exec",
        <<Lit("artifacts"), Lit("repositories"), Lit("create"), Lit(repo),
          Lit("--project"), Lit(project), Lit("--location"), Lit(region),
          Lit("--repository-format"), Lit("docker"), Lit("--quiet")>>, NoStdin)

\* submit_build streams to the terminal; the capturing variant captures stdout.
CallSubmitBuild(bundle, project, tag, capture) ==
    GcloudCall("build.submit", IF capture THEN "exec" ELSE "streaming",
        <<Lit("builds"), Lit("submit"), Lit(bundle), Lit("--project"), Lit(project),
          Lit("--tag"), tag, Lit("--quiet")>>, NoStdin)

CallListSecrets(project) ==
    GcloudCall("secrets.list", "exec",
        <<Lit("secrets"), Lit("list"), Lit("--project"), Lit(project),
          Lit("--format"), Lit("value(name)")>>, NoStdin)

\* A mutant of SecretsFlag: only the first secret is mapped.
SecretsFlag_FirstOnly(secrets) ==
    IF secrets = <<>> THEN <<>> ELSE <<secrets[1], "=", secrets[1], ":latest">>

\* secrets.iter().map(|s| format!("{s}={s}:latest")).collect().join(",")
RECURSIVE SecretsFlag(_)
SecretsFlag(secrets) ==
    IF secrets = <<>> THEN <<>>
    ELSE <<secrets[1], "=", secrets[1], ":latest">>
         \o (IF Len(secrets) > 1 THEN <<",">> ELSE <<>>)
         \o SecretsFlag(Tail(secrets))

CallDeployToCloudRun(service, tag, project, region, secrets) ==
    GcloudCall("run.deploy", "exec",
        <<Lit("run"), Lit("deploy"), Lit(service), Lit("--image"), tag,
          Lit("--project"), Lit(project), Lit("--region"), Lit(region),
          Lit("--platform"), Lit("managed"), Lit("--memory"), Lit("512Mi"),
          Lit("--cpu"), Lit("1"), Lit("--min-instances"), Lit("0"),
          Lit("--max-instances"), Lit("10"), Lit("--concurrency"), Lit("80"),
          Lit("--port"), Lit("8080"), Lit("--allow-unauthenticated"), Lit("--quiet"),
          Lit("--format"), Lit("value(status.url)")>>
        \o (IF SecretsFlag(secrets) # <<>>
            THEN <<Lit("--update-secrets"), SecretsFlag(secrets)>>
            ELSE <<>>),
        NoStdin)

\* The secret commands take the secret's name and value as arguments: strings
\* cut out of the command line, that is, sequences of parts.

CallSecretDescribe(project, name) ==
    GcloudCall("secret.describe", "exec",
        <<Lit("secrets"), Lit("describe"), name, Lit("--project"), Lit(project)>>,
        NoStdin)

CallSecretCreate(project, name) ==
    GcloudCall("secret.create", "exec",
        <<Lit("secrets"), Lit("create"), name, Lit("--project"), Lit(project),
          Lit("--replication-policy"), Lit("automatic")>>, NoStdin)

\* A mutant of CallSecretVersionsAdd: the value is passed as --data-file's argument.
CallSecretVersionsAdd_InArgs(project, name, value) ==
    GcloudCall("secret.addversion", "exec",
        <<Lit("secrets"), Lit("versions"), Lit("add"), name,
          Lit("--project"), Lit(project), Lit("--data-file"), value>>, NoStdin)

\* exec_with_stdin(args(["secrets","versions","add",name,...,"--data-file","-"]), value)
CallSecretVersionsAdd(project, name, value) ==
    GcloudCall("secret.addversion", "stdin",
        <<Lit("secrets"), Lit("versions"), Lit("add"), name,
          Lit("--project"), Lit(project), Lit("--data-file"), Lit("-")>>, value)

CallProjectNumber(project) ==
    GcloudCall("project.number", "exec",
        <<Lit("projects"), Lit("describe"), Lit(project),
          Lit("--format"), Lit("value(projectNumber)")>>, NoStdin)

CallGrantSecretAccess(project, name, sa) ==
    GcloudCall("secret.grant", "exec",
        <<Lit("secrets"), Lit("add-iam-policy-binding"), name,
          Lit("--project"), Lit(project), Lit("--member"), <<"serviceAccount:">> \o sa,
          Lit("--role"), Lit("roles/secretmanager.secretAccessor")>>, NoStdin)

\* revoke_secret_access: `gcloud secrets remove-iam-policy-binding NAME ...`.
CallRevokeSecretAccess(project, name, sa) ==
    GcloudCall("secret.revoke", "exec",
        <<Lit("secrets"), Lit("remove-iam-policy-binding"), name,
          Lit("--project"), Lit(project), Lit("--member"), <<"serviceAccount:">> \o sa,
          Lit("--role"), Lit("roles/secretmanager.secretAccessor")>>, NoStdin)

\* delete_secret: `gcloud secrets delete NAME --project P --quiet`.
CallDeleteSecret(project, name) ==
    GcloudCall("secret.delete", "exec",
        <<Lit("secrets"), Lit("delete"), name, Lit("--project"), Lit(project),
          Lit("--quiet")>>, NoStdin)

\* delete_service: `gcloud run services delete SERVICE ...`.
CallDeleteService(service, project, region) ==
    GcloudCall("service.delete", "exec",
        <<Lit("run"), Lit("services"), Lit("delete"), Lit(service),
          Lit("--project"), Lit(project), Lit("--region"), Lit(region), Lit("--quiet")>>,
        NoStdin)

\* delete_image: `gcloud artifacts docker images delete IMAGE ...`.
CallDeleteImage(image_tag, project) ==
    GcloudCall("image.delete", "exec",
        <<Lit("artifacts"), Lit("docker"), Lit("images"), Lit("delete"), image_tag,
          Lit("--project"), Lit(project), Lit("--delete-tags"), Lit("--quiet")>>, NoStdin)

\* delete_wif_pool: `gcloud iam workload-identity-pools delete POOL ... --quiet`.
CallDeleteWifPool(project, pool) ==
    GcloudCall("pool.delete", "exec",
        <<Lit("iam"), Lit("workload-identity-pools"), Lit("delete"), Lit(pool),
          Lit("--project"), Lit(project), Lit("--location"), Lit("global"),
          Lit("--quiet")>>, NoStdin)

\* delete_service_account: `gcloud iam service-accounts delete EMAIL ... --quiet`.
CallDeleteServiceAccount(project, sa_email) ==
    GcloudCall("sa.delete", "exec",
        <<Lit("iam"), Lit("service-accounts"), Lit("delete"), sa_email,
          Lit("--project"), Lit(project), Lit("--quiet")>>, NoStdin)

\* ensure_wif_pool: `gcloud iam workload-identity-pools create POOL ...`.
CallPoolCreate(project, pool) ==
    GcloudCall("pool.create", "exec",
        <<Lit("iam"), Lit("workload-identity-pools"), Lit("create"), Lit(pool),
          Lit("--project"), Lit(project), Lit("--location"), Lit("global")>>, NoStdin)

\* ensure_oidc_provider: `gcloud iam workload-identity-pools providers create-oidc ...`.
CallProviderCreate(project, pool, provider, github_repo) ==
    GcloudCall("provider.create", "exec",
        <<Lit("iam"), Lit("workload-identity-pools"), Lit("providers"), Lit("create-oidc"),
          Lit(provider), Lit("--project"), Lit(project), Lit("--location"), Lit("global"),
          Lit("--workload-identity-pool"), Lit(pool),
          Lit("--issuer-uri"), Lit("https://token.actions.githubusercontent.com"),
          Lit("--attribute-condition"),
          <<"assertion.repository == '">> \o github_repo \o <<"'">> >>, NoStdin)

\* ensure_service_account: `gcloud iam service-accounts create SA_ID ...`.
CallSaCreate(project, sa_id, display_name) ==
    GcloudCall("sa.create", "exec",
        <<Lit("iam"), Lit("service-accounts"), Lit("create"), Lit(sa_id),
          Lit("--project"), Lit(project), Lit("--display-name"), Lit(display_name)>>,
        NoStdin)

\* bind_iam_roles, one role: `gcloud projects add-iam-policy-binding P ...`.
CallBindRole(project, sa_email, role) ==
    GcloudCall("role.bind", "exec",
        <<Lit("projects"), Lit("add-iam-policy-binding"), Lit(project),
          Lit("--member"), <<"serviceAccount:">> \o sa_email, Lit("--role"), Lit(role)>>,
        NoStdin)

\* bind_wif_to_sa: `gcloud iam service-accounts add-iam-policy-binding SA ...`.
CallBindWif(project, project_number, pool, sa_email, github_repo) ==
    GcloudCall("wif.bind", "exec",
        <<Lit("iam"), Lit("service-accounts"), Lit("add-iam-policy-binding"), sa_email,
          Lit("--project"), Lit(project), Lit("--role"), Lit("roles/iam.workloadIdentityUser"),
          Lit("--member"),
          <<"principalSet://iam.googleapis.com/projects/", project_number,
            "/locations/global/workloadIdentityPools/", pool, "/attribute.repository/">>
            \o github_repo>>, NoStdin)

\* A call of the GitHub CLI.
GhCall(op, argv, stdin) ==
    [tool |-> "gh", op |-> op, mode |-> IF stdin = NoStdin THEN "exec" ELSE "stdin",
     args |-> argv, stdin |-> stdin]

\* exec_gh(&["--version"])
CallGhVersion == GhCall("gh.version", <<Lit("--version")>>, NoStdin)

\* exec_gh(&["auth", "status"])
CallGhAuth == GhCall("gh.auth", <<Lit("auth"), Lit("status")>>, NoStdin)

\* delete_gh_secret: exec_gh(&["secret", "delete", name, "--yes"])
CallGhSecretDelete(name) ==
    GhCall("gh.secret.delete", <<Lit("secret"), Lit("delete"), Lit(name), Lit("--yes")>>,
           NoStdin)

\* set_gh_secret: Command::new("gh").args(["secret", "set", name]), value on stdin.
CallGhSecretSet(name, value) ==
    GhCall("gh.secret.set", <<Lit("secret"), Lit("set"), Lit(name)>>, value)

\* ------------------------------------------------- the cloud control plane

Ok(o) == [ok |-> TRUE, out |-> o, err |-> ""]
Fail(e) == [ok |-> FALSE, out |-> <<>>, err |-> e]

NoResp == [ok |-> FALSE, out |-> <<>>, err |-> NONE]

\* The result of the command the handler awaited last.
resp == IF log = <<>> THEN NoResp ELSE answers[Len(log)]

\* The name a secret command addresses: `gcloud secrets <verb> NAME ...`.
SecretOf(call) ==
    IF call.op = "secret.addversion" THEN call.args[4][1] ELSE call.args[3][1]

\* The API a `services list` call filters on: --filter config.name=API.
ApiOf(call) == call.args[6][2]

\* The answers the control plane may give to a call in state c, each with the
\* state it leaves: [r |-> response, c |-> cloud state].
Outcomes(call, c) ==
    CASE call.op = "version" ->
            {[r |-> Ok(<<"450.0.0">>), c |-> c], [r |-> Fail("ENOENT"), c |-> c]}
      [] call.op = "doctor.version" ->
            {[r |-> Ok(<<"Google Cloud SDK 450.0.0", "bq 2.0.93">>), c |-> c],
             [r |-> Ok(<<"gcloud 450.0.0">>), c |-> c],
             [r |-> Fail("ENOENT"), c |-> c]}
      [] call.op = "account" ->
            {[r |-> Ok(<<"dev@example.com">>), c |-> c], [r |-> Ok(<<>>), c |-> c],
             [r |-> Fail("ENOENT"), c |-> c]}
      [] call.op = "billing.describe" ->
            IF c.billing
            THEN {[r |-> Ok(<<"True">>), c |-> c], [r |-> Fail("UNAVAILABLE"), c |-> c]}
            ELSE {[r |-> Ok(<<"False">>), c |-> c]}
      [] call.op = "auth" ->
            {[r |-> Ok(<<"token">>), c |-> c], [r |-> Fail("UNAUTHENTICATED"), c |-> c]}
      [] call.op = "project.describe" ->
            {[r |-> Ok(<<"My Project">>), c |-> c],
             [r |-> Fail("PERMISSION_DENIED"), c |-> c]}
      [] call.op = "services.list" ->
            IF ApiOf(call) \in c.apis
            THEN {[r |-> Ok(<<ApiOf(call)>>), c |-> c], [r |-> Fail("UNAVAILABLE"), c |-> c]}
            ELSE {[r |-> Ok(<<>>), c |-> c]}
      [] call.op = "repo.describe" ->
            IF c.repo
            THEN {[r |-> Ok(<<"repository">>), c |-> c], [r |-> Fail("UNAVAILABLE"), c |-> c]}
            ELSE {[r |-> Fail("NOT_FOUND"), c |-> c]}
      [] call.op = "repo.create" ->
            IF c.repo
            THEN {[r |-> Fail("ALREADY_EXISTS"), c |-> c]}
            ELSE {[r |-> Ok(<<>>), c |-> [c EXCEPT !.repo = TRUE]],
                  [r |-> Fail("PERMISSION_DENIED"), c |-> c]}
      [] call.op = "build.submit" ->
            {[r |-> Ok(IF call.mode = "exec" THEN <<"build log">> ELSE <<>>),
              c |-> [c EXCEPT !.image = TRUE]],
             [r |-> Fail("exit code: 1"), c |-> c]}
      [] call.op = "secrets.list" ->
            {[r |-> Ok(ListingOf(c.secrets, 1)), c |-> c],
             [r |-> Fail("PERMISSION_DENIED"), c |-> c]}
      [] call.op = "run.deploy" ->
            {[r |-> Ok(<<ServiceUrl>>), c |-> [c EXCEPT !.service = TRUE]],
             [r |-> Fail("deploy failed"), c |-> c]}
      [] call.op = "secret.describe" ->
            IF SecretOf(call) \in c.secrets
            THEN {[r |-> Ok(<<"secret">>), c |-> c], [r |-> Fail("UNAVAILABLE"), c |-> c]}
            ELSE {[r |-> Fail("NOT_FOUND"), c |-> c]}
      [] call.op = "secret.create" ->
            IF SecretOf(call) \in c.secrets
            THEN {[r |-> Fail("ALREADY_EXISTS"), c |-> c]}
            ELSE {[r |-> Ok(<<>>), c |-> [c EXCEPT !.secrets = @ \cup {SecretOf(call)}]],
                  [r |-> Fail("PERMISSION_DENIED"), c |-> c]}
      [] call.op = "secret.addversion" ->
            IF SecretOf(call) \in c.secrets
            THEN {[r |-> Ok(<<>>),
                   c |-> [c EXCEPT !.versions[SecretOf(call)] =
                                       IF @ < MaxVersions THEN @ + 1 ELSE @]],
                  [r |-> Fail("PERMISSION_DENIED"), c |-> c]}
            ELSE {[r |-> Fail("NOT_FOUND"), c |-> c]}
      [] call.op = "project.number" ->
            {[r |-> Ok(<<ProjectNumber>>), c |-> c],
             [r |-> Fail("PERMISSION_DENIED"), c |-> c]}
      [] call.op = "secret.grant" ->
            IF SecretOf(call) \in c.secrets
            THEN {[r |-> Ok(<<>>), c |-> [c EXCEPT !.granted = @ \cup {SecretOf(call)}]],
                  [r |-> Fail("PERMISSION_DENIED"), c |-> c]}
            ELSE {[r |-> Fail("NOT_FOUND"), c |-> c]}
      [] call.op = "secret.revoke" ->
            IF SecretOf(call) \in c.granted
            THEN {[r |-> Ok(<<>>), c |-> [c EXCEPT !.granted = @ \ {SecretOf(call)}]],
                  [r |-> Fail("PERMISSION_DENIED"), c |-> c]}
            ELSE {[r |-> Fail("NOT_FOUND"), c |-> c]}
      [] call.op = "secret.delete" ->
            IF SecretOf(call) \in c.secrets
            THEN {[r |-> Ok(<<>>),
                   c |-> [c EXCEPT !.secrets = @ \ {SecretOf(call)},
                                   !.versions = [n \in SecretNames |->
                                                   IF n = SecretOf(call) THEN 0 ELSE @[n]],
                                   !.granted = @ \ {SecretOf(call)}]],
                  [r |-> Fail("PERMISSION_DENIED"), c |-> c]}
            ELSE {[r |-> Fail("NOT_FOUND"), c |-> c]}
      [] call.op = "pool.create" ->
            IF c.pool
            THEN {[r |-> Fail("ALREADY_EXISTS: resource already exists"), c |-> c]}
            ELSE {[r |-> Ok(<<>>), c |-> [c EXCEPT !.pool = TRUE]],
                  [r |-> Fail("permission denied"), c |-> c]}
      [] call.op = "provider.create" ->
            IF c.provider
            THEN {[r |-> Fail("ALREADY_EXISTS: provider already exists"), c |-> c]}
            ELSE IF c.pool
            THEN {[r |-> Ok(<<>>), c |-> [c EXCEPT !.provider = TRUE]],
                  [r |-> Fail("permission denied"), c |-> c]}
            ELSE {[r |-> Fail("NOT_FOUND"), c |-> c]}
      [] call.op = "sa.create" ->
            IF c.sa
            THEN {[r |-> Fail("Service account already exists"), c |-> c]}
            ELSE {[r |-> Ok(<<>>), c |-> [c EXCEPT !.sa = TRUE]],
                  [r |-> Fail("permission denied"), c |-> c]}
      [] call.op = "role.bind" ->
            IF c.sa
            THEN {[r |-> Ok(<<>>), c |-> [c EXCEPT !.roles = @ \cup {call.args[7][1]}]],
                  [r |-> Fail("permission denied"), c |-> c]}
            ELSE {[r |-> Fail("NOT_FOUND"), c |-> c]}
      [] call.op = "wif.bind" ->
            IF c.sa
            THEN {[r |-> Ok(<<>>), c |-> [c EXCEPT !.wif_bound = TRUE]],
                  [r |-> Fail("permission denied"), c |-> c]}
            ELSE {[r |-> Fail("NOT_FOUND"), c |-> c]}
      [] call.op = "service.delete" ->
            IF c.service
            THEN {[r |-> Ok(<<>>), c |-> [c EXCEPT !.service = FALSE]],
                  [r |-> Fail("PERMISSION_DENIED"), c |-> c]}
            ELSE {[r |-> Fail("NOT_FOUND"), c |-> c]}
      [] call.op = "image.delete" ->
            IF c.image
            THEN {[r |-> Ok(<<>>), c |-> [c EXCEPT !.image = FALSE]],
                  [r |-> Fail("PERMISSION_DENIED"), c |-> c]}
            ELSE {[r |-> Fail("NOT_FOUND"), c |-> c]}
      [] call.op = "pool.delete" ->
            IF c.pool
            THEN {[r |-> Ok(<<>>), c |-> [c EXCEPT !.pool = FALSE, !.provider = FALSE]],
                  [r |-> Fail("PERMISSION_DENIED"), c |-> c]}
            ELSE {[r |-> Fail("NOT_FOUND"), c |-> c]}
      [] call.op = "sa.delete" ->
            IF c.sa
            THEN {[r |-> Ok(<<>>), c |-> [c EXCEPT !.sa = FALSE, !.roles = {},
                                                  !.wif_bound = FALSE]],
                  [r |-> Fail("PERMISSION_DENIED"), c |-> c]}
            ELSE {[r |-> Fail("NOT_FOUND"), c |-> c]}
      [] call.op = "gh.secret.delete" ->
            {[r |-> Ok(<<>>), c |-> c], [r |-> Fail("HTTP 404"), c |-> c]}
      [] call.op = "gh.version" ->
            {[r |-> Ok(<<"gh version 2.40.0">>), c |-> c], [r |-> Fail("ENOENT"), c |-> c]}
      [] call.op = "gh.auth" ->
            {[r |-> Ok(<<>>), c |-> c], [r |-> Fail("not logged in"), c |-> c]}
      [] call.op = "gh.secret.set" ->
            {[r |-> Ok(<<>>), c |-> c], [r |-> Fail("HTTP 403"), c |-> c]}
      [] OTHER -> {[r |-> Fail("UNKNOWN_COMMAND"), c |-> c]}

\* -------------------------------------------------------- results and errors

Running == [ok |-> FALSE, kind |-> NONE, text |-> {}, apis |-> <<>>]
ResultOk == [ok |-> TRUE, kind |-> "Ok", text |-> {}, apis |-> <<>>]

\* An error: its kind and the phrases its message (with its causes) contains.
Err(kind, text) == [ok |-> FALSE, kind |-> kind, text |-> text, apis |-> <<>>]

\* bundle::is_dirty found changes, in the wording of each deploy entry point.
ErrDirty(c) ==
    IF c = "run"
    THEN Err("Dirty", {"uncommitted changes", "--allow-dirty", "allow_dirty=true"})
    ELSE Err("Dirty", {"uncommitted changes", "--allow-dirty"})

ErrGit == Err("BundleError::GitFailed", {"git failed"})
ErrConfig == Err("Error::ConfigParse", {"propel.toml"})
ErrCargo == Err("Error::CargoToml", {"Cargo.toml"})

\* A mutant of require_gcp_project_id: an unset id falls back to a default.
require_gcp_project_id_Defaulted(config_pid) ==
    [ok |-> TRUE, pid |-> IF config_pid = NONE THEN "default-project" ELSE config_pid,
     err |-> Running]

\* config.project.gcp_project_id.as_deref().ok_or_else(...)
require_gcp_project_id(config_pid) ==
    IF config_pid = NONE
    THEN [ok |-> FALSE, pid |-> NONE,
          err |-> Err("MissingProjectId", {"gcp_project_id", "propel.toml"})]
    ELSE [ok |-> TRUE, pid |-> config_pid, err |-> Running]

ErrPreflight(kind, project) ==
    CASE kind = "GcloudNotInstalled" -> Err("PreflightError::GcloudNotInstalled",
                                            {"gcloud CLI not installed"})
      [] kind = "NotAuthenticated" -> Err("PreflightError::NotAuthenticated",
                                          {"not authenticated"})
      [] OTHER -> Err("PreflightError::ProjectNotAccessible",
                      {"is not accessible", project})

\* The abort of the readiness gate: deploy_pipeline::run puts the list in the
\* error, CLI deploy prints it and fails with a fixed message.
ErrApisDisabled(c, disabled, project) ==
    IF c = "run"
    THEN [ok |-> FALSE, kind |-> "ApisDisabled",
          text |-> {"Required APIs not enabled", project} \cup Range(disabled),
          apis |-> disabled]
    ELSE Err("ApisDisabled", {"required APIs not enabled"})

ErrDeploy(stderr) == Err("DeployError::Deploy", {"cloud run deployment failed", stderr})
ErrSubmit(stderr) == Err("CloudBuildError::Submit", {"cloud build submission failed", stderr})
ErrBundle == Err("BundleError::GitFailed", {"git failed"})
ErrSecretCreate(stderr) == Err("SecretError::Create", {"failed to create secret", stderr})
ErrSecretAddVersion(stderr) ==
    Err("SecretError::AddVersion", {"failed to add secret version", stderr})
ErrSecretList(stderr) == Err("SecretError::List", {"failed to list secrets", stderr})
ErrSecretGrant(stderr) ==
    Err("SecretError::GrantAccess", {"failed to grant secret access", stderr})

\* usize::to_string for the counts the report prints.
NumStr(n) == IF n = 0 THEN "0" ELSE <<"1", "2", "3", "4", "5">>[n]

\* CheckResult::default(), CheckResult::ok(detail), CheckResult::fail(detail).
CheckResult_default == [passed |-> FALSE, detail |-> <<>>]
CheckResult_ok(detail) == [passed |-> TRUE, detail |-> detail]
CheckResult_fail(detail) == [passed |-> FALSE, detail |-> detail]

\* DoctorReport::default(): no check recorded, no API entry.
DoctorReport_default ==
    [gcloud |-> CheckResult_default, account |-> CheckResult_default,
     project |-> CheckResult_default, billing |-> CheckResult_default,
     apis |-> <<>>, config_file |-> CheckResult_default]

\* ------------------------------------------------------------- run machinery

NoLocals ==
    [disabled |-> <<>>, i |-> 0, secrets |-> <<>>, build_output |-> <<>>,
     dockerfile |-> <<>>, pid |-> NONE, pn |-> NONE,
     key |-> <<>>, value |-> <<>>, twin |-> <<>>, github_repo |-> <<>>,
     report |-> DoctorReport_default, binary |-> NONE,
     resolved_path |-> NONE, permit |-> 0,
     tool |-> [i \in 1..MaxInvocations |-> [pc |-> "idle", ret |-> NoResp]]]

\* A call issued identically by the run and by its twin.
Same(c) == << <<c, c>> >>

\* One segment of a handler: the code from the completion of one awaited
\* command to the issue of the next.  calls is the sequence of <<call, the
\* twin run's call>> the segment issues, nfs the files it leaves.
GoFs(npc, nops, nsteps, nout, nloc, calls, res, nfs) ==
    /\ pc' = npc
    /\ ops' = ops \o nops
    /\ steps' = steps \o nsteps
    /\ out' = out \o nout
    /\ loc' = nloc
    /\ result' = res
    /\ log' = log \o [k \in DOMAIN calls |-> calls[k][1]]
    /\ shadow' = shadow \o [k \in DOMAIN calls |-> calls[k][2].args]
    /\ answers' = answers \o [k \in DOMAIN calls |-> NoResp]
    /\ inflight' = inflight \cup {Len(log) + k : k \in DOMAIN calls}
    /\ fs' = nfs
    /\ UNCHANGED <<cmd, inp, cloud>>

\* A segment that writes no file.
Go(npc, nops, nsteps, nout, nloc, calls, res) ==
    GoFs(npc, nops, nsteps, nout, nloc, calls, res, fs)

\* The handler returns res.
Return(nops, nsteps, nout, res) == Go("done", nops, nsteps, nout, loc, <<>>, res)

\* The handler is at position p and the command it awaited has completed.
At(p) == pc = p /\ inflight = {} /\ result = Running

\* The executor runs one issued command to completion (RealExecutor::exec,
\* exec_streaming, exec_with_stdin): the control plane answers and changes.
Exec ==
    /\ result = Running
    /\ \E i \in inflight :
         \E o \in Outcomes(log[i], cloud) :
            /\ answers' = [answers EXCEPT ![i] = o.r]
            /\ cloud' = o.c
            /\ inflight' = inflight \ {i}
    /\ UNCHANGED <<cmd, inp, pc, log, shadow, ops, steps, out, loc, result, fs>>

\* A concurrent run against the same project and region creates the registry:
\* runs are not coordinated at the cloud-provider level.
OtherRunCreatesRepo ==
    /\ result = Running
    /\ cmd \in {"run", "deploy"}
    /\ ~cloud.repo
    /\ cloud' = [cloud EXCEPT !.repo = TRUE]
    /\ UNCHANGED <<cmd, inp, pc, inflight, answers, log, shadow, ops, steps, out, loc,
                   result, fs>>

\* ------------------------------------------------------------------- deploy
\* deploy_pipeline::run (cmd = "run") and the CLI's deploy (cmd = "deploy").
\* run appends status lines to its report; the CLI prints its lines.

DeployCmds == {"run", "deploy"}

Step(c, line) == IF c = "run" THEN <<line>> ELSE <<>>
Said(c, line) == IF c = "deploy" THEN <<line>> ELSE <<>>

\* A mutant of DirtyGate: the tree is checked whatever allow_dirty says.
DirtyGate_AlwaysChecks ==
    /\ cmd \in DeployCmds
    /\ At("dirty_gate")
    /\ CASE inp.tree = "nogit" -> Return(<<"is_dirty">>, <<>>, <<>>, ErrGit)
         [] inp.tree = "dirty" -> Return(<<"is_dirty">>, <<>>, <<>>, ErrDirty(cmd))
         [] OTHER -> Go("load_config", <<"is_dirty">>, <<>>, <<>>, loc, <<>>, Running)

\* Dirty check: `if !allow_dirty && bundle::is_dirty(project_dir)? { bail!() }`.
DirtyGate ==
    /\ cmd \in DeployCmds
    /\ At("dirty_gate")
    /\ IF inp.allow_dirty
       THEN Go("load_config", <<>>, <<>>, <<>>, loc, <<>>, Running)
       ELSE CASE inp.tree = "nogit" -> Return(<<"is_dirty">>, <<>>, <<>>, ErrGit)
              [] inp.tree = "dirty" -> Return(<<"is_dirty">>, <<>>, <<>>, ErrDirty(cmd))
              [] OTHER -> Go("load_config", <<"is_dirty">>, <<>>, <<>>, loc, <<>>, Running)

\* Load configuration, resolve the project id, and enter check_prerequisites
\* up to its first command (gcloud version).
LoadConfiguration ==
    /\ cmd \in DeployCmds
    /\ At("load_config")
    /\ LET req == require_gcp_project_id(inp.pid) IN
       IF inp.config = "bad"
       THEN Return(<<"load_config">>, <<>>, <<>>, ErrConfig)
       ELSE IF inp.cargo = "bad"
       THEN Return(<<"load_config", "load_meta">>, <<>>, <<>>, ErrCargo)
       ELSE IF ~req.ok
       THEN Return(<<"load_config", "load_meta">>, <<>>, <<>>, req.err)
       ELSE Go("pf_version", <<"load_config", "load_meta", "check_prerequisites">>,
               <<>>, Said(cmd, <<"Running pre-flight checks...">>),
               [loc EXCEPT !.pid = req.pid], Same(CallVersion), Running)

\* The error a failed check leaves the command with: the deploys propagate the
\* PreflightError, ci_init's check_required_apis rewraps its message.
PreflightAbort(kind) ==
    IF cmd = "ci_init" THEN Err("anyhow", ErrPreflight(kind, loc.pid).text)
    ELSE ErrPreflight(kind, loc.pid)

\* check_prerequisites, 1: gcloud CLI available.
PreflightVersion ==
    /\ At("pf_version")
    /\ IF resp.ok
       THEN Go("pf_auth", <<>>, <<>>, <<>>, loc, Same(CallAuth), Running)
       ELSE Return(<<>>, <<>>, <<>>, PreflightAbort("GcloudNotInstalled"))

\* check_prerequisites, 2: authenticated.
PreflightAuth ==
    /\ At("pf_auth")
    /\ IF resp.ok
       THEN Go("pf_project", <<>>, <<>>, <<>>, loc, Same(CallProjectDescribe(loc.pid)),
               Running)
       ELSE Return(<<>>, <<>>, <<>>, PreflightAbort("NotAuthenticated"))

\* check_prerequisites, 3: project accessible; then the first API probe.
PreflightProject ==
    /\ At("pf_project")
    /\ IF resp.ok
       THEN Go("pf_api", <<>>, <<>>, <<>>, [loc EXCEPT !.i = 1],
               Same(CallServicesList(loc.pid, PreflightApis[1])), Running)
       ELSE Return(<<>>, <<>>, <<>>, PreflightAbort("ProjectNotAccessible"))

\* A mutant of ApiEnabled: a listing that failed counts as enabled.
ApiEnabled_ErrorPasses(r) == ~r.ok \/ r.out # <<>>

\* `.map(|out| !out.trim().is_empty()).unwrap_or(false)`
ApiEnabled(r) == r.ok /\ r.out # <<>>

\* report.disabled_apis after the probe of API number i answered r.
DisabledAfter(disabled, i, r) ==
    IF ApiEnabled(r) THEN disabled ELSE Append(disabled, PreflightApis[i])

\* check_prerequisites, 4: one probe per required API, none of them fatal.
PreflightApiNext ==
    /\ At("pf_api")
    /\ loc.i < Len(PreflightApis)
    /\ Go("pf_api", <<>>, <<>>, <<>>,
          [loc EXCEPT !.i = @ + 1, !.disabled = DisabledAfter(@, loc.i, resp)],
          Same(CallServicesList(loc.pid, PreflightApis[loc.i + 1])), Running)

\* A mutant of has_warnings: the report never warns.
has_warnings_Never(disabled) == FALSE

\* PreflightReport::has_warnings
has_warnings(disabled) == disabled # <<>>

\* The last probe answered: check_prerequisites returns its report and the
\* deploy either aborts on a disabled API or starts ensure_artifact_repo.
PreflightDoneDeploy ==
    /\ cmd \in DeployCmds
    /\ At("pf_api")
    /\ loc.i = Len(PreflightApis)
    /\ LET disabled == DisabledAfter(loc.disabled, loc.i, resp) IN
       IF has_warnings(disabled)
       THEN Go("done", <<>>, <<>>,
               Said(cmd, <<"Warning: the following APIs are not enabled:">>)
                 \o (IF cmd = "deploy"
                     THEN [k \in DOMAIN disabled |-> <<"  - ", disabled[k]>>]
                     ELSE <<>>)
                 \o Said(cmd, <<"Enable them with: gcloud services enable <api> --project ",
                               loc.pid>>),
               [loc EXCEPT !.disabled = disabled], <<>>,
               ErrApisDisabled(cmd, disabled, loc.pid))
       ELSE Go("repo_describe", <<"ensure_artifact_repo">>,
               Step(cmd, <<"Pre-flight checks passed">>),
               Said(cmd, <<"Ensuring Artifact Registry repository...">>),
               [loc EXCEPT !.disabled = disabled],
               Same(CallRepoDescribe(loc.pid, Region, ARTIFACT_REPO_NAME)), Running)

\* The build capture flag: the CLI's deploy always streams the build.
Capture == cmd = "run" /\ inp.capture

\* A mutant of ComposeAndSubmit: the build submission and the secret listing
\* are issued together instead of one after the other.
ComposeAndSubmit_FanOut ==
    Go("submit_build", <<"render", "create_bundle", "submit_build", "list_secrets">>,
       <<>>, <<>>, loc,
       Same(CallSubmitBuild(BundleDir, loc.pid,
                            ImageTag(Region, loc.pid, ARTIFACT_REPO_NAME, ServiceName),
                            Capture))
         \o Same(CallListSecrets(loc.pid)),
       Running)

\* eject::is_ejected: .propel/Dockerfile exists.
is_ejected(f) == f.ejected.exists

\* eject::load_ejected_dockerfile: read_to_string of .propel/Dockerfile.
load_ejected_dockerfile(f) ==
    IF f.ejected.exists /\ f.ejected.readable THEN Ok(f.ejected.content)
    ELSE Fail("EjectError::Read")

\* A mutant of DockerfileContent: the recipe is rendered whether or not an
\* ejected one exists.
DockerfileContent_AlwaysRendered(f) == Ok(RenderedRecipe)

\* `let dockerfile_content = if is_ejected { load_ejected_dockerfile()? } else
\* { DockerfileGenerator::new(..).render() }`.
DockerfileContent(f) ==
    IF is_ejected(f) THEN load_ejected_dockerfile(f) ELSE Ok(RenderedRecipe)

\* The paths of the project directory the model follows, as components, in the
\* order git lists them.
GitIgnorePath == <<".gitignore">>
StalePath == <<".propel-bundle", "old.txt">>
EjectedPath == <<".propel", "Dockerfile">>
ManifestPath == <<"Cargo.toml">>
DockerfilePath == <<"Dockerfile">>
NotesPath == <<"notes.txt">>
MainPath == <<"src", "main.rs">>
TargetPath == <<"target", "debug">>
PathOrder ==
    <<GitIgnorePath, StalePath, EjectedPath, ManifestPath, DockerfilePath, NotesPath,
      MainPath, TargetPath>>

\* The paths in git's index (tracked) of a project that once committed its
\* bundle, and the untracked paths the ignore rules match.
Tracked == {GitIgnorePath, StalePath, ManifestPath, MainPath}
Ignored == {TargetPath}

\* The content of a file of the working tree.
V1 == << <<"v1">> >>
V2 == << <<"v2">> >>

\* The file at a path of the project directory; .propel/Dockerfile is the
\* ejected recipe.
FileAt(f, p) == IF p = EjectedPath THEN f.ejected ELSE f.tree[p]

\* const PROPEL_EXCLUDES
PROPEL_EXCLUDES == <<".propel-bundle", ".propel", ".git">>

\* Path::starts_with(ex) for a one-component ex: the first component is ex.
starts_with(path, ex) == path[1] = ex

\* A mutant of IsExcluded: the exclusion compares the text of the path, so
\* that ".gitignore" is taken to lie under ".git".
IsExcluded_TextPrefix(path) ==
    \E k \in DOMAIN PROPEL_EXCLUDES :
        \/ starts_with(path, PROPEL_EXCLUDES[k])
        \/ PROPEL_EXCLUDES[k] = ".git" /\ path[1] = ".gitignore"

\* PROPEL_EXCLUDES.iter().any(|ex| relative_path.starts_with(ex))
IsExcluded(path) == \E k \in DOMAIN PROPEL_EXCLUDES : starts_with(path, PROPEL_EXCLUDES[k])

\* git ls-files --cached --others --exclude-standard: the tracked paths,
\* present or not, and the untracked paths that exist and are not ignored.
RECURSIVE git_ls_files_from(_, _)
git_ls_files_from(f, i) ==
    IF i > Len(PathOrder) THEN <<>>
    ELSE LET p == PathOrder[i] IN
         (IF p \in f.index \/ (FileAt(f, p).exists /\ p \notin Ignored) THEN <<p>> ELSE <<>>)
         \o git_ls_files_from(f, i + 1)
git_ls_files(f) == git_ls_files_from(f, 1)

\* The copy loop of create_bundle from the i-th listed path on: [ok, staged,
\* dockerfile]; it stops at the first file it cannot copy.  n tags the files
\* with the call that copied them.
RECURSIVE CopyFiles(_, _, _, _, _, _)
CopyFiles(f, files, i, staged, dockerfile, n) ==
    IF i > Len(files) THEN [ok |-> TRUE, staged |-> staged, dockerfile |-> dockerfile]
    ELSE LET p == files[i] IN
         IF IsExcluded(p) THEN CopyFiles(f, files, i + 1, staged, dockerfile, n)
         ELSE IF ~FileAt(f, p).exists
         THEN [ok |-> FALSE, staged |-> staged, dockerfile |-> dockerfile]
         ELSE IF p = DockerfilePath
         THEN CopyFiles(f, files, i + 1, staged, FileAt(f, p), n)
         ELSE CopyFiles(f, files, i + 1,
                        staged \cup {[path |-> p, content |-> FileAt(f, p).content, by |-> n]},
                        dockerfile, n)

\* The .propel-bundle directory exists.
BundleExists(f) == f.staged # {} \/ f.bundle.exists

\* What the file system and git may do to one create_bundle.
BundleIo == {"ok", "no_cleanup", "nogit"}

\* A mutant of create_bundle: the old bundle directory is not removed, the
\* files are copied over it.
create_bundle_Incremental(f, dockerfile_content, n, io) ==
    IF io = "no_cleanup" /\ BundleExists(f)
    THEN [r |-> Fail("BundleError::Cleanup"), fs |-> f]
    ELSE IF io = "nogit"
    THEN [r |-> Fail("BundleError::GitFailed"), fs |-> f]
    ELSE LET c == CopyFiles(f, git_ls_files(f), 1, {}, f.bundle, n)
             over == c.staged \cup {e \in f.staged : \A x \in c.staged : x.path # e.path}
         IN  IF ~c.ok
             THEN [r |-> Fail("BundleError::CopyFile"),
                   fs |-> [f EXCEPT !.staged = over, !.bundle = c.dockerfile]]
             ELSE [r |-> Ok(<<BundleDir>>),
                   fs |-> [f EXCEPT !.staged = over, !.bundle = File(dockerfile_content)]]

\* bundle::create_bundle: the old bundle is removed, git lists the files, they
\* are copied with the internal directories left out, and the recipe is
\* written last as the bundle's Dockerfile.  Its result and the files it leaves.
create_bundle(f, dockerfile_content, n, io) ==
    IF io = "no_cleanup" /\ BundleExists(f)
    THEN [r |-> Fail("BundleError::Cleanup"), fs |-> f]
    ELSE IF io = "nogit"
    THEN [r |-> Fail("BundleError::GitFailed"),
          fs |-> [f EXCEPT !.staged = {}, !.bundle = NoFile]]
    ELSE LET c == CopyFiles(f, git_ls_files(f), 1, {}, NoFile, n) IN
         IF ~c.ok
         THEN [r |-> Fail("BundleError::CopyFile"),
               fs |-> [f EXCEPT !.staged = c.staged, !.bundle = c.dockerfile]]
         ELSE [r |-> Ok(<<BundleDir>>),
               fs |-> [f EXCEPT !.staged = c.staged, !.bundle = File(dockerfile_content)]]

\* Steps 5-7 of the pipeline, entered when ensure_artifact_repo returned Ok:
\* obtain the recipe (ejected file verbatim, else rendered), compose the
\* bundle, and issue the build submission.
ComposeAndSubmit ==
    LET recipe == IF is_ejected(fs) THEN "load_ejected_dockerfile" ELSE "render"
        s1 == Step(cmd, <<"Artifact Registry repository ensured">>)
              \o (IF is_ejected(fs) THEN Step(cmd, <<"Using ejected Dockerfile">>)
                  ELSE <<>>)
        o1 == IF is_ejected(fs)
              THEN Said(cmd, <<"Using ejected Dockerfile from .propel/Dockerfile">>)
              ELSE <<>>
        content == DockerfileContent(fs)
        tag == ImageTag(Region, loc.pid, ARTIFACT_REPO_NAME, ServiceName)
        bundled == create_bundle(fs, content.out, 1,
                                 IF inp.tree = "nogit" THEN "nogit" ELSE "ok")
    IN  IF ~content.ok
        THEN Return(<<recipe>>, s1, o1,
                    Err(content.err, {"failed to read ejected Dockerfile"}))
        ELSE IF ~bundled.r.ok
        THEN GoFs("done", <<recipe, "create_bundle">>, s1,
                  o1 \o Said(cmd, <<"Bundling source...">>), loc, <<>>, ErrBundle,
                  bundled.fs)
        ELSE GoFs("submit_build", <<recipe, "create_bundle", "submit_build">>,
                  s1 \o Step(cmd, <<"Source bundled">>),
                  o1 \o Said(cmd, <<"Bundling source...">>)
                     \o Said(cmd, <<"Submitting build to Cloud Build...">>),
                  [loc EXCEPT !.dockerfile = content.out],
                  Same(CallSubmitBuild(BundleDir, loc.pid, tag, Capture)), Running,
                  bundled.fs)

\* A mutant of EnsureRepoProbed: only a NOT_FOUND probe counts as absence.
EnsureRepoProbed_NotFoundOnly ==
    /\ cmd \in DeployCmds
    /\ At("repo_describe")
    /\ IF resp.ok
       THEN ComposeAndSubmit
       ELSE IF resp.err = "NOT_FOUND"
       THEN Go("repo_create", <<>>, <<>>, <<>>, loc,
               Same(CallRepoCreate(loc.pid, Region, ARTIFACT_REPO_NAME)), Running)
       ELSE Return(<<>>, <<>>, <<>>, ErrDeploy(resp.err))

\* ensure_artifact_repo after its describe probe: `let exists = ....is_ok()`.
EnsureRepoProbed ==
    /\ cmd \in DeployCmds
    /\ At("repo_describe")
    /\ IF resp.ok
       THEN ComposeAndSubmit
       ELSE Go("repo_create", <<>>, <<>>, <<>>, loc,
               Same(CallRepoCreate(loc.pid, Region, ARTIFACT_REPO_NAME)), Running)

\* What ensure_artifact_repo returns once its create call answered r:
\* `.map_err(|e| DeployError::Deploy { source: e })?; Ok(())`.
ensure_artifact_repo_created(r) == IF r.ok THEN ResultOk ELSE ErrDeploy(r.err)

\* ensure_artifact_repo after its create call.
EnsureRepoCreated ==
    /\ cmd \in DeployCmds
    /\ At("repo_create")
    /\ IF ensure_artifact_repo_created(resp).ok
       THEN ComposeAndSubmit
       ELSE Return(<<>>, <<>>, <<>>, ensure_artifact_repo_created(resp))

\* A mutant of SubmitBuildFailed: a failed build is not fatal.
SubmitBuildFailed_Ignored(r) == FALSE

\* `client.submit_build(...).await?`: the build failed.
SubmitBuildFailed(r) == ~r.ok

\* A mutant of BuildSubmitted: a failed build is submitted once more.
BuildSubmitted_Retries ==
    /\ cmd \in DeployCmds
    /\ At("submit_build")
    /\ IF SubmitBuildFailed(resp)
       THEN IF Len(log) > 1 /\ log[Len(log) - 1].op = "build.submit"
            THEN Return(<<>>, <<>>, <<>>, ErrSubmit(resp.err))
            ELSE Go("submit_build", <<>>, <<>>, <<>>, loc, Same(log[Len(log)]), Running)
       ELSE Go("list_secrets", <<"list_secrets">>,
               Step(cmd, <<"Cloud Build completed">>), <<>>,
               [loc EXCEPT !.build_output = IF Capture THEN resp.out ELSE <<>>],
               Same(CallListSecrets(loc.pid)), Running)

\* The build answered: abort on failure, else start secret discovery.
BuildSubmitted ==
    /\ cmd \in DeployCmds
    /\ At("submit_build")
    /\ IF SubmitBuildFailed(resp)
       THEN Return(<<>>, <<>>, <<>>, ErrSubmit(resp.err))
       ELSE Go("list_secrets", <<"list_secrets">>,
               Step(cmd, <<"Cloud Build completed">>), <<>>,
               [loc EXCEPT !.build_output = IF Capture THEN resp.out ELSE <<>>],
               Same(CallListSecrets(loc.pid)), Running)

\* A mutant of DiscoveredSecrets: a listing failure still yields names.
DiscoveredSecrets_Stale(r) == IF r.ok THEN r.out ELSE <<SecretNamePool[1]>>

\* `match client.list_secrets(...).await { Ok(s) => s, Err(e) => { warn; vec![] } }`
\* with list_secrets' `output.lines().map(|s| s.to_owned()).collect()`.
DiscoveredSecrets(r) == IF r.ok THEN r.out ELSE <<>>

\* The listing answered: a failure is a warning; then deploy to Cloud Run.
SecretsDiscovered ==
    /\ cmd \in DeployCmds
    /\ At("list_secrets")
    /\ LET secrets == DiscoveredSecrets(resp)
           warn == <<"Warning: could not list secrets: ", "failed to list secrets">>
           tag == ImageTag(Region, loc.pid, ARTIFACT_REPO_NAME, ServiceName)
       IN  Go("run_deploy", <<"deploy_to_cloud_run">>,
              (IF resp.ok THEN <<>> ELSE Step(cmd, warn))
                \o (IF secrets = <<>>
                    THEN Step(cmd, <<"No secrets found in Secret Manager">>)
                    ELSE Step(cmd, <<NumStr(Len(secrets)), " secret(s) will be injected">>)),
              (IF resp.ok THEN <<>> ELSE Said(cmd, warn))
                \o (IF secrets = <<>>
                    THEN Said(cmd, <<"No secrets found in Secret Manager">>)
                    ELSE Said(cmd, <<"Injecting ", NumStr(Len(secrets)),
                                     " secret(s) from Secret Manager">>))
                \o Said(cmd, <<"Deploying to Cloud Run (", Region, ")...">>),
              [loc EXCEPT !.secrets = secrets],
              Same(CallDeployToCloudRun(ServiceName, tag, loc.pid, Region, secrets)),
              Running)

\* A mutant of Deployed: the report closes with the Deployed line whatever the
\* deploy answered.
Deployed_ClaimsAnyway ==
    /\ cmd \in DeployCmds
    /\ At("run_deploy")
    /\ Return(<<>>, Step(cmd, <<"Deployed: ", ServiceUrl>>),
              Said(cmd, <<"Deployed: ", ServiceUrl>>),
              IF resp.ok THEN ResultOk ELSE ErrDeploy(resp.err))

\* The deploy answered: the run returns its outcome or the deploy error.
Deployed ==
    /\ cmd \in DeployCmds
    /\ At("run_deploy")
    /\ IF resp.ok
       THEN Return(<<>>, Step(cmd, <<"Deployed: ", resp.out[1]>>),
                   Said(cmd, <<"Deployed: ", resp.out[1]>>), ResultOk)
       ELSE Return(<<>>, <<>>, <<>>, ErrDeploy(resp.err))

\* ----------------------------------------------------------------- secrets
\* secret_set, secret_delete and secret_list, with GcloudClient::set_secret
\* inlined into secret_set.

RECURSIVE FirstEq(_, _)
\* The position of the first '=' of a command-line argument, 0 if it has none.
FirstEq(kv, i) ==
    IF i > Len(kv) THEN 0 ELSE IF kv[i] = "=" THEN i ELSE FirstEq(kv, i + 1)

\* str::split_once('='): the text before the first '=', and the text after it.
split_once(kv) ==
    LET i == FirstEq(kv, 1) IN
    IF i = 0 THEN [ok |-> FALSE, key |-> <<>>, value |-> <<>>]
    ELSE [ok |-> TRUE, key |-> SubSeq(kv, 1, i - 1), value |-> SubSeq(kv, i + 1, Len(kv))]

ErrKeyValue == Err("Usage", {"expected KEY=VALUE format"})

\* secret_set up to the describe probe of set_secret.
SecretSetStart ==
    /\ cmd = "secret_set"
    /\ At("start")
    /\ LET kv == split_once(inp.key_value)
           kv2 == split_once(inp.key_value2)
           req == require_gcp_project_id(inp.pid)
       IN  IF ~kv.ok THEN Return(<<>>, <<>>, <<>>, ErrKeyValue)
           ELSE IF inp.config = "bad" THEN Return(<<"load_config">>, <<>>, <<>>, ErrConfig)
           ELSE IF ~req.ok THEN Return(<<"load_config">>, <<>>, <<>>, req.err)
           ELSE Go("ss_describe", <<"load_config", "set_secret">>, <<>>, <<>>,
                   [loc EXCEPT !.pid = req.pid, !.key = kv.key, !.value = kv.value,
                               !.twin = kv2.value],
                   << <<CallSecretDescribe(req.pid, kv.key),
                        CallSecretDescribe(req.pid, kv2.key)>> >>, Running)

\* The version call of set_secret, of the run and of its twin.
AddVersionCalls ==
    << <<CallSecretVersionsAdd(loc.pid, loc.key, loc.value),
         CallSecretVersionsAdd(loc.pid, loc.key, loc.twin)>> >>

\* A mutant of SetSecretExists: the secret is always taken to be absent.
SetSecretExists_Never(r) == FALSE

\* `let exists = self.executor.exec(describe).await.is_ok()`
SetSecretExists(r) == r.ok

\* set_secret after its describe probe: `if !exists { create }`, else add the
\* version.
SetSecretProbed ==
    /\ cmd = "secret_set"
    /\ At("ss_describe")
    /\ IF SetSecretExists(resp)
       THEN Go("ss_add", <<>>, <<>>, <<>>, loc, AddVersionCalls, Running)
       ELSE Go("ss_create", <<>>, <<>>, <<>>, loc,
               Same(CallSecretCreate(loc.pid, loc.key)), Running)

\* set_secret after its create call: `.map_err(SecretError::Create)?`.
SetSecretCreated ==
    /\ cmd = "secret_set"
    /\ At("ss_create")
    /\ IF resp.ok
       THEN Go("ss_add", <<>>, <<>>, <<>>, loc, AddVersionCalls, Running)
       ELSE Return(<<>>, <<>>, <<>>, ErrSecretCreate(resp.err))

\* set_secret after `versions add`; secret_set then asks the project number.
SetSecretVersionAdded ==
    /\ cmd = "secret_set"
    /\ At("ss_add")
    /\ IF resp.ok
       THEN Go("ss_pn", <<"get_project_number">>, <<>>, <<>>, loc,
               Same(CallProjectNumber(loc.pid)), Running)
       ELSE Return(<<>>, <<>>, <<>>, ErrSecretAddVersion(resp.err))

\* secret_set after get_project_number: grant the runtime identity access.
SecretSetNumbered ==
    /\ cmd = "secret_set"
    /\ At("ss_pn")
    /\ IF resp.ok
       THEN Go("ss_grant", <<"grant_secret_access">>, <<>>, <<>>,
               [loc EXCEPT !.pn = resp.out[1]],
               Same(CallGrantSecretAccess(loc.pid, loc.key, ComputeSa(resp.out[1]))),
               Running)
       ELSE Return(<<>>, <<>>, <<>>, ErrDeploy(resp.err))

\* A mutant of SecretSetGranted: the result of the grant is not looked at.
SecretSetGranted_Unchecked ==
    /\ cmd = "secret_set"
    /\ At("ss_grant")
    /\ Return(<<>>, <<>>, <<>>, ResultOk)

\* secret_set after grant_secret_access.
SecretSetGranted ==
    /\ cmd = "secret_set"
    /\ At("ss_grant")
    /\ IF resp.ok
       THEN Return(<<>>, <<>>,
                   << <<"Secret '">> \o loc.key
                      \o <<"' set successfully (Cloud Run SA granted access)">> >>,
                   ResultOk)
       ELSE Return(<<>>, <<>>, <<>>, ErrSecretGrant(resp.err))

\* `matches!(input.trim(), "y" | "Y" | "yes" | "YES")`
Confirmed(answer) == answer \in {"y", "Y", "yes", "YES"}

ErrSecretRevoke(stderr) ==
    Err("SecretError::RevokeAccess", {"failed to revoke secret access", stderr})
ErrSecretDelete(stderr) == Err("SecretError::Delete", {"failed to delete secret", stderr})

\* secret_delete up to get_project_number.
SecretDeleteStart ==
    /\ cmd = "secret_delete"
    /\ At("start")
    /\ LET req == require_gcp_project_id(inp.pid)
           prompt == << <<"Delete secret '", inp.key, "'? [y/N] ">> >>
       IN  IF inp.config = "bad" THEN Return(<<"load_config">>, <<>>, <<>>, ErrConfig)
           ELSE IF ~req.ok THEN Return(<<"load_config">>, <<>>, <<>>, req.err)
           ELSE IF ~inp.skip_confirm /\ ~Confirmed(inp.answer)
           THEN Return(<<"load_config", "confirm">>, <<>>, prompt \o <<Lit("Aborted.")>>,
                       ResultOk)
           ELSE Go("sd_pn",
                   <<"load_config">> \o (IF inp.skip_confirm THEN <<>> ELSE <<"confirm">>)
                     \o <<"get_project_number">>,
                   <<>>, IF inp.skip_confirm THEN <<>> ELSE prompt,
                   [loc EXCEPT !.pid = req.pid, !.key = Lit(inp.key)],
                   Same(CallProjectNumber(req.pid)), Running)

\* secret_delete after get_project_number: revoke the runtime identity's access.
SecretDeleteNumbered ==
    /\ cmd = "secret_delete"
    /\ At("sd_pn")
    /\ IF resp.ok
       THEN Go("sd_revoke", <<"revoke_secret_access">>, <<>>, <<>>,
               [loc EXCEPT !.pn = resp.out[1]],
               Same(CallRevokeSecretAccess(loc.pid, loc.key, ComputeSa(resp.out[1]))),
               Running)
       ELSE Return(<<>>, <<>>, <<>>, ErrDeploy(resp.err))

\* A mutant of SecretDeleteRevoked: a failed revoke aborts the command.
SecretDeleteRevoked_Fatal ==
    /\ cmd = "secret_delete"
    /\ At("sd_revoke")
    /\ IF resp.ok
       THEN Go("sd_delete", <<"delete_secret">>, <<>>, <<>>, loc,
               Same(CallDeleteSecret(loc.pid, loc.key)), Running)
       ELSE Return(<<>>, <<>>, <<>>, ErrSecretRevoke(resp.err))

\* secret_delete after the revoke: a failure is a warning; delete the secret.
SecretDeleteRevoked ==
    /\ cmd = "secret_delete"
    /\ At("sd_revoke")
    /\ Go("sd_delete", <<"delete_secret">>, <<>>,
          IF resp.ok THEN <<>>
          ELSE << <<"Warning: could not revoke SA binding for '">> \o loc.key \o <<"'">> >>,
          loc, Same(CallDeleteSecret(loc.pid, loc.key)), Running)

\* secret_delete after delete_secret.
SecretDeleteDeleted ==
    /\ cmd = "secret_delete"
    /\ At("sd_delete")
    /\ IF resp.ok
       THEN Return(<<>>, <<>>, << <<"Secret '">> \o loc.key \o <<"' deleted">> >>, ResultOk)
       ELSE Return(<<>>, <<>>, <<>>, ErrSecretDelete(resp.err))

\* secret_list up to list_secrets.
SecretListStart ==
    /\ cmd = "secret_list"
    /\ At("start")
    /\ LET req == require_gcp_project_id(inp.pid) IN
       IF inp.config = "bad" THEN Return(<<"load_config">>, <<>>, <<>>, ErrConfig)
       ELSE IF ~req.ok THEN Return(<<"load_config">>, <<>>, <<>>, req.err)
       ELSE Go("sl_list", <<"load_config", "list_secrets">>, <<>>, <<>>,
               [loc EXCEPT !.pid = req.pid], Same(CallListSecrets(req.pid)), Running)

\* secret_list after list_secrets: print the names.
SecretListListed ==
    /\ cmd = "secret_list"
    /\ At("sl_list")
    /\ IF resp.ok
       THEN Return(<<>>, <<>>,
                   IF resp.out = <<>> THEN <<Lit("No secrets found")>>
                   ELSE [k \in DOMAIN resp.out |-> Lit(resp.out[k])],
                   ResultOk)
       ELSE Return(<<>>, <<>>, <<>>, ErrSecretList(resp.err))

\* set_gh_secret(name, value): spawn `gh secret set NAME`, write the value to
\* its standard input.
GhSecretSetStart ==
    /\ cmd = "set_gh_secret"
    /\ At("start")
    /\ Go("gh_set", <<"set_gh_secret">>, <<>>, <<>>,
          [loc EXCEPT !.value = inp.value, !.twin = inp.value2],
          << <<CallGhSecretSet(inp.key, inp.value), CallGhSecretSet(inp.key, inp.value2)>> >>,
          Running)

\* set_gh_secret after gh exited.
GhSecretSetDone ==
    /\ cmd = "set_gh_secret"
    /\ At("gh_set")
    /\ IF resp.ok
       THEN Return(<<>>, <<>>, <<>>, ResultOk)
       ELSE Return(<<>>, <<>>, <<>>, Err("gh", {"gh secret set", inp.key, resp.err}))

\* ------------------------------------------------------------------ ci init
\* ci_init: prerequisites, workload identity federation, service account,
\* GitHub secrets, workflow file.

\* str::strip_suffix(x).unwrap_or(s)
StripSuffix(s, x) == IF s # <<>> /\ s[Len(s)] = x THEN SubSeq(s, 1, Len(s) - 1) ELSE s

\* parse_github_repo: "owner/repo" out of an SSH or HTTP(S) GitHub URL.
parse_github_repo(url) ==
    IF url # <<>> /\ url[1] = "git@github.com:"
    THEN [some |-> TRUE, repo |-> StripSuffix(Tail(url), ".git")]
    ELSE IF url # <<>> /\ url[1] \in {"https://github.com/", "http://github.com/"}
    THEN [some |-> TRUE, repo |-> StripSuffix(StripSuffix(Tail(url), ".git"), "/")]
    ELSE [some |-> FALSE, repo |-> <<>>]

\* The `git remote get-url origin` of the project directory could not be read.
NoRemote == <<>>

\* ci_init up to its first command: the workflow guard, then `gh --version`.
CiStart ==
    /\ cmd = "ci_init"
    /\ At("start")
    /\ IF inp.workflow
       THEN Return(<<>>, <<>>, <<>>, Err("anyhow", {"Workflow already exists"}))
       ELSE Go("ci_gh_version", <<>>, <<>>, <<Lit("Checking prerequisites...")>>, loc,
               Same(CallGhVersion), Running)

\* gh CLI found; then `gh auth status`.
CiGhVersion ==
    /\ cmd = "ci_init"
    /\ At("ci_gh_version")
    /\ IF resp.ok
       THEN Go("ci_gh_auth", <<>>, <<>>, << <<"  gh CLI: ", resp.out[1]>> >>, loc,
               Same(CallGhAuth), Running)
       ELSE Return(<<>>, <<>>, <<>>, Err("anyhow", {"gh CLI not found"}))

\* gh authenticated; detect_github_repo; load the configuration and resolve
\* the project id; then check_required_apis enters check_prerequisites.
CiGhAuth ==
    /\ cmd = "ci_init"
    /\ At("ci_gh_auth")
    /\ LET parsed == parse_github_repo(inp.remote)
           req == require_gcp_project_id(inp.pid)
           o1 == <<Lit("  gh auth: OK")>>
           o2 == o1 \o << <<"  Repository: ">> \o parsed.repo >>
       IN  IF ~resp.ok
           THEN Return(<<>>, <<>>, <<>>, Err("anyhow", {"Not authenticated with GitHub"}))
           ELSE IF inp.remote = NoRemote
           THEN Return(<<"detect_github_repo">>, <<>>, o1,
                       Err("anyhow", {"No git remote 'origin' found"}))
           ELSE IF ~parsed.some
           THEN Return(<<"detect_github_repo">>, <<>>, o1,
                       Err("anyhow", {"is not a GitHub repository"}))
           ELSE IF inp.config = "bad"
           THEN Return(<<"detect_github_repo", "load_config">>, <<>>, o2, ErrConfig)
           ELSE IF ~req.ok
           THEN Return(<<"detect_github_repo", "load_config">>, <<>>, o2, req.err)
           ELSE Go("pf_version",
                   <<"detect_github_repo", "load_config", "check_prerequisites">>, <<>>,
                   o2 \o << <<"  GCP Project: ", req.pid>> >>,
                   [loc EXCEPT !.pid = req.pid, !.github_repo = parsed.repo],
                   Same(CallVersion), Running)

\* check_required_apis after the last probe; then ensure_wif_pool's create.
PreflightDoneCi ==
    /\ cmd = "ci_init"
    /\ At("pf_api")
    /\ loc.i = Len(PreflightApis)
    /\ LET disabled == DisabledAfter(loc.disabled, loc.i, resp) IN
       IF has_warnings(disabled)
       THEN Go("done", <<>>, <<>>, <<>>, [loc EXCEPT !.disabled = disabled], <<>>,
               [ok |-> FALSE, kind |-> "anyhow",
                text |-> {"Required APIs not enabled"} \cup Range(disabled),
                apis |-> disabled])
       ELSE Go("ci_pool", <<"ensure_wif_pool">>, <<>>,
               <<Lit("  Required APIs: OK"), Lit("Setting up Workload Identity Federation...")>>,
               [loc EXCEPT !.disabled = disabled],
               Same(CallPoolCreate(loc.pid, WIF_POOL_ID)), Running)

\* The error texts of the control plane and the patterns they contain.
Contains(text, pattern) ==
    <<text, pattern>> \in
        {<<"ALREADY_EXISTS: resource already exists", "ALREADY_EXISTS">>,
         <<"ALREADY_EXISTS: resource already exists", "already exists">>,
         <<"ALREADY_EXISTS: provider already exists", "ALREADY_EXISTS">>,
         <<"ALREADY_EXISTS: provider already exists", "already exists">>,
         <<"Service account already exists", "already exists">>,
         <<"ALREADY_EXISTS", "ALREADY_EXISTS">>}

\* A mutant of is_already_exists: only the upper-case status code matches.
is_already_exists_CodeOnly(stderr) == Contains(stderr, "ALREADY_EXISTS")

\* The wording of a create failure says the resource already exists.
is_already_exists(stderr) ==
    Contains(stderr, "ALREADY_EXISTS") \/ Contains(stderr, "already exists")

\* What an idempotent ensure returns once its create call answered r:
\* Ok(true), Ok(false), or the typed error of the resource kind.
Ensured(r, kind) ==
    IF r.ok THEN [ok |-> TRUE, created |-> TRUE, err |-> Running]
    ELSE IF is_already_exists(r.err) THEN [ok |-> TRUE, created |-> FALSE, err |-> Running]
    ELSE [ok |-> FALSE, created |-> FALSE, err |-> Err(kind, {r.err})]

ensure_wif_pool(r) == Ensured(r, "WifError::CreatePool")
ensure_oidc_provider(r) == Ensured(r, "WifError::CreateProvider")
ensure_service_account(r) == Ensured(r, "WifError::CreateServiceAccount")

\* ensure_wif_pool returned; then ensure_oidc_provider's create.
CiPoolEnsured ==
    /\ cmd = "ci_init"
    /\ At("ci_pool")
    /\ LET e == ensure_wif_pool(resp) IN
       IF ~e.ok THEN Return(<<>>, <<>>, <<>>, e.err)
       ELSE Go("ci_provider", <<"ensure_oidc_provider">>, <<>>,
               << <<IF e.created THEN "  Created Identity Pool: "
                    ELSE "  Identity Pool already exists: ", WIF_POOL_ID>> >>, loc,
               Same(CallProviderCreate(loc.pid, WIF_POOL_ID, WIF_PROVIDER_ID,
                                       loc.github_repo)), Running)

\* ensure_oidc_provider returned; then ensure_service_account's create.
CiProviderEnsured ==
    /\ cmd = "ci_init"
    /\ At("ci_provider")
    /\ LET e == ensure_oidc_provider(resp) IN
       IF ~e.ok THEN Return(<<>>, <<>>, <<>>, e.err)
       ELSE Go("ci_sa", <<"ensure_service_account">>, <<>>,
               << <<IF e.created THEN "  Created OIDC Provider: "
                    ELSE "  OIDC Provider already exists: ", WIF_PROVIDER_ID>>,
                  Lit("Setting up Service Account...") >>, loc,
               Same(CallSaCreate(loc.pid, CI_SA_ID, "Propel CI Deploy")), Running)

\* ensure_service_account returned; then bind_iam_roles binds the first role.
CiSaEnsured ==
    /\ cmd = "ci_init"
    /\ At("ci_sa")
    /\ LET e == ensure_service_account(resp) IN
       IF ~e.ok THEN Return(<<>>, <<>>, <<>>, e.err)
       ELSE Go("ci_roles", <<"bind_iam_roles">>, <<>>,
               << <<IF e.created THEN "  Created SA: " ELSE "  SA already exists: ">>
                    \o SaEmail(loc.pid),
                  Lit("  Binding IAM roles...") >>,
               [loc EXCEPT !.i = 1],
               Same(CallBindRole(loc.pid, SaEmail(loc.pid), CI_SA_ROLES[1])), Running)

ErrBindRole(role, stderr) == Err("WifError::BindRole", {role, stderr})

\* A mutant of CiRoleNext: a failed binding is passed over and the next role is bound.
CiRoleNext_Continues ==
    /\ cmd = "ci_init"
    /\ At("ci_roles")
    /\ loc.i < Len(CI_SA_ROLES)
    /\ Go("ci_roles", <<>>, <<>>, <<>>, [loc EXCEPT !.i = @ + 1],
          Same(CallBindRole(loc.pid, SaEmail(loc.pid), CI_SA_ROLES[loc.i + 1])), Running)

\* bind_iam_roles: a role is bound, the next one follows; a failure names the role.
CiRoleNext ==
    /\ cmd = "ci_init"
    /\ At("ci_roles")
    /\ loc.i < Len(CI_SA_ROLES)
    /\ IF resp.ok
       THEN Go("ci_roles", <<>>, <<>>, <<>>, [loc EXCEPT !.i = @ + 1],
               Same(CallBindRole(loc.pid, SaEmail(loc.pid), CI_SA_ROLES[loc.i + 1])),
               Running)
       ELSE Return(<<>>, <<>>, <<>>, ErrBindRole(CI_SA_ROLES[loc.i], resp.err))

\* bind_iam_roles returned after the last role; then get_project_number.
CiRolesBound ==
    /\ cmd = "ci_init"
    /\ At("ci_roles")
    /\ loc.i = Len(CI_SA_ROLES)
    /\ IF resp.ok
       THEN Go("ci_pn", <<"get_project_number">>, <<>>,
               [k \in DOMAIN CI_SA_ROLES |-> <<"    ", CI_SA_ROLES[k]>>], loc,
               Same(CallProjectNumber(loc.pid)), Running)
       ELSE Return(<<>>, <<>>, <<>>, ErrBindRole(CI_SA_ROLES[loc.i], resp.err))

\* get_project_number returned; then bind_wif_to_sa.
CiNumbered ==
    /\ cmd = "ci_init"
    /\ At("ci_pn")
    /\ IF resp.ok
       THEN Go("ci_wif", <<"bind_wif_to_sa">>, <<>>, <<>>, [loc EXCEPT !.pn = resp.out[1]],
               Same(CallBindWif(loc.pid, resp.out[1], WIF_POOL_ID, SaEmail(loc.pid),
                                loc.github_repo)), Running)
       ELSE Return(<<>>, <<>>, <<>>, ErrDeploy(resp.err))

\* The value ci_init stores under the n-th GitHub secret name.
GhSecretValue(n) ==
    CASE n = 1 -> Lit(loc.pid)
      [] n = 2 -> WifProvider(loc.pn)
      [] OTHER -> SaEmail(loc.pid)

\* bind_wif_to_sa returned; then the first set_gh_secret.
CiWifBound ==
    /\ cmd = "ci_init"
    /\ At("ci_wif")
    /\ IF resp.ok
       THEN Go("ci_gh_secret", <<"set_gh_secret">>, <<>>,
               << <<"  Bound WIF to SA (scoped to ">> \o loc.github_repo \o <<")">>,
                  Lit("Configuring GitHub Secrets...") >>,
               [loc EXCEPT !.i = 1],
               Same(CallGhSecretSet(GH_SECRET_NAMES[1], GhSecretValue(1))), Running)
       ELSE Return(<<>>, <<>>, <<>>, Err("WifError::BindWif", {resp.err}))

ErrGhSecret(name, stderr) == Err("anyhow", {"gh secret set", name, stderr})

\* A GitHub secret is set; the next one follows.
CiGhSecretNext ==
    /\ cmd = "ci_init"
    /\ At("ci_gh_secret")
    /\ loc.i < Len(GH_SECRET_NAMES)
    /\ IF resp.ok
       THEN Go("ci_gh_secret", <<"set_gh_secret">>, <<>>,
               << <<"  ", GH_SECRET_NAMES[loc.i]>> >>, [loc EXCEPT !.i = @ + 1],
               Same(CallGhSecretSet(GH_SECRET_NAMES[loc.i + 1], GhSecretValue(loc.i + 1))),
               Running)
       ELSE Return(<<>>, <<>>, <<>>, ErrGhSecret(GH_SECRET_NAMES[loc.i], resp.err))

\* A mutant of CiWorkflowWritten: the workflow file is written before the
\* outcome of the last set_gh_secret is looked at.
CiWorkflowWritten_BeforeCheck ==
    /\ cmd = "ci_init"
    /\ At("ci_gh_secret")
    /\ loc.i = Len(GH_SECRET_NAMES)
    /\ Return(<<"write_workflow">>, <<>>,
              <<Lit("Generated: .github/workflows/propel-deploy.yml")>>,
              IF resp.ok THEN ResultOk ELSE ErrGhSecret(GH_SECRET_NAMES[loc.i], resp.err))

\* The last GitHub secret is set; the workflow file is written last.
CiWorkflowWritten ==
    /\ cmd = "ci_init"
    /\ At("ci_gh_secret")
    /\ loc.i = Len(GH_SECRET_NAMES)
    /\ IF resp.ok
       THEN Return(<<"write_workflow">>, <<>>,
                   << <<"  ", GH_SECRET_NAMES[loc.i]>>,
                      Lit("Generated: .github/workflows/propel-deploy.yml"),
                      Lit("Push to main -> auto deploy to Cloud Run.") >>, ResultOk)
       ELSE Return(<<>>, <<>>, <<>>, ErrGhSecret(GH_SECRET_NAMES[loc.i], resp.err))

\* ------------------------------------------------------------------ destroy
\* destroy(skip_confirm, include_secrets, include_ci): every deletion is
\* best-effort, its failure printed as "Skipped".

\* name.chars().take(5).collect()
Take5(name) ==
    CASE name = "DB_URL" -> "DB_UR"
      [] name = "API_KEY" -> "API_K"
      [] OTHER -> name

\* mask_name: the first five characters, then "***".
mask_name(name) == <<Take5(name), "***">>

\* format!("{region}-docker.pkg.dev/{project}/{repo}/{service}")
DestroyImage(region, project, repo, service) ==
    <<region, "-docker.pkg.dev/", project, "/", repo, "/", service>>

\* The outcome line of a best-effort deletion: match r { Ok(()) => println!(deleted),
\* Err(e) => println!("{skipped} ({e})") }.
DeletedOrSkipped(r, deleted, skipped) ==
    IF r.ok THEN deleted ELSE skipped \o <<" (", r.err, ")">>

\* The outcome lines of the numbered steps of destroy.
ServiceLine(r) == DeletedOrSkipped(r, <<"  Deleted.">>, <<"  Skipped">>)
SecretLine(r, s) ==
    DeletedOrSkipped(r, <<"  Deleted ">> \o mask_name(s), <<"  Skipped ">> \o mask_name(s))
PoolLine(r) ==
    DeletedOrSkipped(r, <<"  Deleted WIF Pool '", WIF_POOL_ID, "'">>, <<"  Skipped WIF Pool">>)
SaLine(r) ==
    DeletedOrSkipped(r, <<"  Deleted Service Account">>, <<"  Skipped Service Account">>)
GhLine(r, n) ==
    DeletedOrSkipped(r, <<"  Deleted GitHub Secret: ", n>>, <<"  Skipped GitHub Secret ", n>>)

\* destroy up to the discovery of the secrets.
DestroyStart ==
    /\ cmd = "destroy"
    /\ At("start")
    /\ LET req == require_gcp_project_id(inp.pid) IN
       IF inp.config = "bad" THEN Return(<<"load_config">>, <<>>, <<>>, ErrConfig)
       ELSE IF inp.cargo = "bad"
       THEN Return(<<"load_config", "load_meta">>, <<>>, <<>>, ErrCargo)
       ELSE IF ~req.ok THEN Return(<<"load_config", "load_meta">>, <<>>, <<>>, req.err)
       ELSE Go("ds_list", <<"load_config", "load_meta", "list_secrets">>, <<>>, <<>>,
               [loc EXCEPT !.pid = req.pid], Same(CallListSecrets(req.pid)), Running)

\* What destroy announces before it asks for confirmation.
DestroyPlan(secrets) ==
    <<Lit("This will delete:"),
      <<"  - Cloud Run service '", ServiceName, "' in ", Region>>,
      Lit("  - Container images in Artifact Registry"),
      Lit("  - Local .propel-bundle/")>>
    \o (IF inp.include_secrets /\ secrets # <<>>
        THEN << <<"  - ", NumStr(Len(secrets)), " secret(s) from Secret Manager:">> >>
             \o [k \in DOMAIN secrets |-> <<"      ">> \o mask_name(secrets[k])]
        ELSE <<>>)
    \o (IF inp.include_ci
        THEN << <<"  - Workload Identity Pool '", WIF_POOL_ID, "'">>,
                <<"  - Service Account '">> \o SaEmail(loc.pid) \o <<"'">>,
                Lit("  - GitHub Secrets (GCP_PROJECT_ID, WIF_PROVIDER, WIF_SERVICE_ACCOUNT)"),
                Lit("  - .github/workflows/propel-deploy.yml") >>
        ELSE <<>>)
    \o <<Lit("Are you sure? [y/N] ")>>

\* A mutant of DestroyListed: the teardown starts whatever the answer.
DestroyListed_Unasked ==
    /\ cmd = "destroy"
    /\ At("ds_list")
    /\ Go("ds_service", <<"delete_service">>, <<>>,
          << <<"Deleting Cloud Run service '", ServiceName, "'...">> >>,
          [loc EXCEPT !.secrets = DiscoveredSecrets(resp)],
          Same(CallDeleteService(ServiceName, loc.pid, Region)), Running)

\* The listing answered (a failure is a warning); confirmation; then
\* delete_service.
DestroyListed ==
    /\ cmd = "destroy"
    /\ At("ds_list")
    /\ LET secrets == DiscoveredSecrets(resp)
           warn == IF resp.ok THEN <<>>
                   ELSE << <<"Warning: could not list secrets: ", "failed to list secrets">> >>
           plan == IF inp.skip_confirm THEN <<>> ELSE DestroyPlan(secrets)
           asked == IF inp.skip_confirm THEN <<>> ELSE <<"confirm">>
       IN  IF ~inp.skip_confirm /\ ~Confirmed(inp.answer)
           THEN Go("done", asked, <<>>, warn \o plan \o <<Lit("Aborted.")>>,
                   [loc EXCEPT !.secrets = secrets], <<>>, ResultOk)
           ELSE Go("ds_service", asked \o <<"delete_service">>, <<>>,
                   warn \o plan
                     \o << <<"Deleting Cloud Run service '", ServiceName, "'...">> >>,
                   [loc EXCEPT !.secrets = secrets],
                   Same(CallDeleteService(ServiceName, loc.pid, Region)), Running)

\* A mutant of DestroyServiceDeleted: a failed delete_service ends the teardown.
DestroyServiceDeleted_Aborts ==
    /\ cmd = "destroy"
    /\ At("ds_service")
    /\ IF resp.ok
       THEN Go("ds_image", <<"delete_image">>, <<>>,
               <<ServiceLine(resp), Lit("Deleting container image...")>>, loc,
               Same(CallDeleteImage(DestroyImage(Region, loc.pid, ARTIFACT_REPO_NAME,
                                                 ServiceName), loc.pid)), Running)
       ELSE Return(<<>>, <<>>, <<ServiceLine(resp)>>, ResultOk)

\* delete_service answered; then delete_image.
DestroyServiceDeleted ==
    /\ cmd = "destroy"
    /\ At("ds_service")
    /\ Go("ds_image", <<"delete_image">>, <<>>,
          <<ServiceLine(resp), Lit("Deleting container image...")>>, loc,
          Same(CallDeleteImage(DestroyImage(Region, loc.pid, ARTIFACT_REPO_NAME, ServiceName),
                               loc.pid)), Running)

\* Step 5 and the closing notes: the local bundle is removed and what remains
\* is named with the command that deletes it.
DestroyFinish(nops, nout, workflow_left) ==
    Return(nops \o (IF inp.bundle THEN <<"remove_bundle">> ELSE <<>>), <<>>,
           nout \o (IF inp.bundle THEN <<Lit("Removed local .propel-bundle/")>> ELSE <<>>)
                \o <<Lit("Destroy complete.")>>
                \o (IF ~inp.include_secrets /\ loc.secrets # <<>>
                    THEN << <<"Note: ", NumStr(Len(loc.secrets)),
                              " secret(s) remain in Secret Manager.">>,
                            Lit("  To delete them: propel destroy --include-secrets") >>
                    ELSE <<>>)
                \o (IF ~inp.include_ci /\ workflow_left
                    THEN <<Lit("Note: CI/CD resources remain (WIF, Service Account, GitHub Secrets, workflow)."),
                           Lit("  To delete them: propel destroy --include-ci")>>
                    ELSE <<>>),
           ResultOk)

\* Step 4, entered after the secrets: the CI resources if requested.
DestroyCi(nout) ==
    IF inp.include_ci
    THEN Go("ds_pool", <<"delete_wif_pool">>, <<>>,
            nout \o <<Lit("Deleting CI/CD resources...")>>, loc,
            Same(CallDeleteWifPool(loc.pid, WIF_POOL_ID)), Running)
    ELSE DestroyFinish(<<>>, nout, inp.workflow)

\* delete_image answered; then step 3, the secrets if requested.
DestroyImageDeleted ==
    /\ cmd = "destroy"
    /\ At("ds_image")
    /\ LET line == <<ServiceLine(resp)>> IN
       IF inp.include_secrets /\ loc.secrets # <<>>
       THEN Go("ds_secret", <<"delete_secret">>, <<>>,
               line \o << <<"Deleting ", NumStr(Len(loc.secrets)), " secret(s)...">> >>,
               [loc EXCEPT !.i = 1],
               Same(CallDeleteSecret(loc.pid, Lit(loc.secrets[1]))), Running)
       ELSE DestroyCi(line)

\* A secret is deleted or skipped; the next one follows.
DestroySecretNext ==
    /\ cmd = "destroy"
    /\ At("ds_secret")
    /\ loc.i < Len(loc.secrets)
    /\ Go("ds_secret", <<"delete_secret">>, <<>>,
          <<SecretLine(resp, loc.secrets[loc.i])>>,
          [loc EXCEPT !.i = @ + 1],
          Same(CallDeleteSecret(loc.pid, Lit(loc.secrets[loc.i + 1]))), Running)

\* The last secret is deleted or skipped.
DestroySecretsDeleted ==
    /\ cmd = "destroy"
    /\ At("ds_secret")
    /\ loc.i = Len(loc.secrets)
    /\ DestroyCi(<<SecretLine(resp, loc.secrets[loc.i])>>)

\* delete_wif_pool answered; then delete_service_account.
DestroyPoolDeleted ==
    /\ cmd = "destroy"
    /\ At("ds_pool")
    /\ Go("ds_sa", <<"delete_service_account">>, <<>>,
          <<PoolLine(resp)>>, loc,
          Same(CallDeleteServiceAccount(loc.pid, SaEmail(loc.pid))), Running)

\* delete_service_account answered; then the first delete_gh_secret.
DestroySaDeleted ==
    /\ cmd = "destroy"
    /\ At("ds_sa")
    /\ Go("ds_gh", <<"delete_gh_secret">>, <<>>,
          <<SaLine(resp)>>, [loc EXCEPT !.i = 1],
          Same(CallGhSecretDelete(GH_SECRET_NAMES[1])), Running)

\* A GitHub secret is deleted or skipped; the next one follows.
DestroyGhSecretNext ==
    /\ cmd = "destroy"
    /\ At("ds_gh")
    /\ loc.i < Len(GH_SECRET_NAMES)
    /\ Go("ds_gh", <<"delete_gh_secret">>, <<>>,
          <<GhLine(resp, GH_SECRET_NAMES[loc.i])>>,
          [loc EXCEPT !.i = @ + 1],
          Same(CallGhSecretDelete(GH_SECRET_NAMES[loc.i + 1])), Running)

\* The last GitHub secret is deleted or skipped; the workflow file is removed.
DestroyCiDeleted ==
    /\ cmd = "destroy"
    /\ At("ds_gh")
    /\ loc.i = Len(GH_SECRET_NAMES)
    /\ DestroyFinish(IF inp.workflow THEN <<"remove_workflow">> ELSE <<>>,
                     <<GhLine(resp, GH_SECRET_NAMES[loc.i])>>
                       \o (IF inp.workflow
                           THEN <<Lit("  Deleted .github/workflows/propel-deploy.yml")>>
                           ELSE <<>>),
                     FALSE)

\* ------------------------------------------------------------------- doctor
\* GcloudClient::doctor(project_id) fills a DoctorReport check by check; the
\* doctor command adds the config-file check, prints the table and fails
\* unless all_passed().

\* The labels of required_apis, beside DoctorApis.
DoctorApiLabels == <<"Cloud Build", "Cloud Run", "Secret Manager", "Artifact Registry">>

\* line.strip_prefix("Google Cloud SDK "): the rest of the line, or None.
strip_prefix_sdk(line) ==
    CASE line = "Google Cloud SDK 450.0.0" -> <<"450.0.0">>
      [] OTHER -> NONE

\* The detail of the gcloud check: the version of the first line if it has the
\* SDK prefix, else the whole output.
VersionDetail(v) ==
    IF v # <<>> /\ strip_prefix_sdk(v[1]) # NONE THEN strip_prefix_sdk(v[1]) ELSE v

\* v.trim().eq_ignore_ascii_case("true")
IsTrue(v) == v # <<>> /\ v[1] \in {"true", "True", "TRUE"}

\* CheckResult::icon
icon(r) == IF r.passed THEN "OK" ELSE "NG"

\* DoctorReport::all_passed
all_passed(report) ==
    /\ report.gcloud.passed
    /\ report.account.passed
    /\ report.project.passed
    /\ report.billing.passed
    /\ report.config_file.passed
    /\ \A k \in DOMAIN report.apis : report.apis[k].result.passed

\* config.as_ref().ok().and_then(|c| c.project.gcp_project_id.as_deref())
DoctorProjectId == IF inp.config = "ok" THEN inp.pid ELSE NONE

\* The doctor command after client.doctor returned: the config-file check,
\* the table (the column padding is left out) and the verdict.
DoctorFinish(r) ==
    LET report == [r EXCEPT !.config_file =
                       IF inp.config # "missing" THEN CheckResult_ok(<<"Found">>)
                       ELSE CheckResult_fail(<<"Not found">>)]
        row(label, c) == label \o <<icon(c)>> \o c.detail
    IN  Go("done", <<>>, <<>>,
           <<row(Lit("gcloud CLI"), report.gcloud),
             row(Lit("Authentication"), report.account),
             row(Lit("GCP Project"), report.project),
             row(Lit("Billing"), report.billing)>>
             \o [k \in DOMAIN report.apis |->
                    row(<<report.apis[k].name, " API">>, report.apis[k].result)]
             \o <<row(Lit("propel.toml"), report.config_file),
                  Lit("------------------------------")>>
             \o (IF all_passed(report) THEN <<Lit("All checks passed!")>> ELSE <<>>),
           [loc EXCEPT !.report = report], <<>>,
           IF all_passed(report) THEN ResultOk
           ELSE Err("anyhow", {"some checks failed"}))

\* doctor up to the first check: `gcloud version`.
DoctorStart ==
    /\ cmd = "doctor"
    /\ At("start")
    /\ Go("dr_version", <<"load_config", "doctor">>, <<>>,
          <<Lit("Propel Doctor"), Lit("------------------------------")>>, loc,
          Same(CallDoctorVersion), Running)

\* 1. gcloud CLI recorded; then the active account.
DoctorVersion ==
    /\ cmd = "doctor"
    /\ At("dr_version")
    /\ Go("dr_account", <<>>, <<>>, <<>>,
          [loc EXCEPT !.report.gcloud =
              IF resp.ok THEN CheckResult_ok(VersionDetail(resp.out))
              ELSE CheckResult_fail(<<resp.err>>)],
          Same(CallAccount), Running)

\* 2. the account recorded; 3. without a project id the project check fails
\* and doctor returns; else `projects describe`.
DoctorAccount ==
    /\ cmd = "doctor"
    /\ At("dr_account")
    /\ LET r == [loc.report EXCEPT !.account =
                    IF resp.ok /\ resp.out # <<>> THEN CheckResult_ok(resp.out)
                    ELSE CheckResult_fail(<<"no active account">>)]
       IN  IF DoctorProjectId = NONE
           THEN DoctorFinish([r EXCEPT !.project =
                    CheckResult_fail(<<"gcp_project_id not set in propel.toml">>)])
           ELSE Go("dr_project", <<>>, <<>>, <<>>,
                   [loc EXCEPT !.pid = DoctorProjectId, !.report = r],
                   Same(CallProjectDescribe(DoctorProjectId)), Running)

\* 3. the project recorded; an inaccessible project makes doctor return (the
\* dash of its detail is written "--" here); else 4. billing.
DoctorProject ==
    /\ cmd = "doctor"
    /\ At("dr_project")
    /\ IF resp.ok
       THEN Go("dr_billing", <<>>, <<>>, <<>>,
               [loc EXCEPT !.report.project =
                   CheckResult_ok(<<loc.pid, " (">> \o resp.out \o <<")">>)],
               Same(CallBillingDescribe(loc.pid)), Running)
       ELSE DoctorFinish([loc.report EXCEPT !.project =
                CheckResult_fail(<<loc.pid, " -- not accessible">>)])

\* 4. billing recorded; 5. the first required API is probed.
DoctorBilling ==
    /\ cmd = "doctor"
    /\ At("dr_billing")
    /\ Go("dr_apis", <<>>, <<>>, <<>>,
          [loc EXCEPT !.i = 1,
                      !.report.billing =
                          IF resp.ok /\ IsTrue(resp.out) THEN CheckResult_ok(<<"Enabled">>)
                          ELSE CheckResult_fail(<<"Billing not enabled">>)],
          Same(CallServicesList(loc.pid, DoctorApis[1])), Running)

\* A mutant of ApiCheck: a probe that was answered counts as enabled.
ApiCheck_AnyAnswer(label, r) ==
    [name |-> label,
     result |-> IF r.ok THEN CheckResult_ok(<<"Enabled">>)
                ELSE CheckResult_fail(<<"Not enabled">>)]

\* The entry report.apis gets for the API probed last.
ApiCheck(label, r) ==
    [name |-> label,
     result |-> IF r.ok /\ r.out # <<>> THEN CheckResult_ok(<<"Enabled">>)
                ELSE CheckResult_fail(<<"Not enabled">>)]

\* An API entry is pushed; the next API is probed.
DoctorApiNext ==
    /\ cmd = "doctor"
    /\ At("dr_apis")
    /\ loc.i < Len(DoctorApis)
    /\ Go("dr_apis", <<>>, <<>>, <<>>,
          [loc EXCEPT !.i = @ + 1,
                      !.report.apis = Append(@, ApiCheck(DoctorApiLabels[loc.i], resp))],
          Same(CallServicesList(loc.pid, DoctorApis[loc.i + 1])), Running)

\* The last API entry is pushed; doctor returns the report.
DoctorApisDone ==
    /\ cmd = "doctor"
    /\ At("dr_apis")
    /\ loc.i = Len(DoctorApis)
    /\ DoctorFinish([loc.report EXCEPT
                        !.apis = Append(@, ApiCheck(DoctorApiLabels[loc.i], resp))])

\* -------------------------------------------------------------------- eject
\* A session on one project directory: eject is called (by the eject command
\* with the rendered recipe, or directly with any recipe), the ejected file is
\* loaded, and its owner removes it.  Every call and its result are logged.

\* A file-system operation and its argument, in the shape of an executor call.
FsCall(op, argv) == [tool |-> "fs", op |-> op, mode |-> "call", args |-> argv, stdin |-> NoStdin]

\* What the file system may do to one eject: succeed, fail to create .propel,
\* fail to create the file, or fail after creating it empty.
IoOutcomes == {"ok", "no_dir", "no_write", "short_write"}

\* A mutant of eject: the file is written whether or not it exists.
eject_Overwrites(f, dockerfile_content, io) ==
    IF io = "no_dir" THEN [r |-> Fail("EjectError::CreateDir"), fs |-> f]
    ELSE IF io = "no_write" THEN [r |-> Fail("EjectError::Write"), fs |-> f]
    ELSE IF io = "short_write"
    THEN [r |-> Fail("EjectError::Write"), fs |-> [f EXCEPT !.ejected = File(<<>>)]]
    ELSE [r |-> Ok(<<>>), fs |-> [f EXCEPT !.ejected = File(dockerfile_content)]]

\* eject::eject(project_dir, dockerfile_content): its result and the files it
\* leaves.
eject(f, dockerfile_content, io) ==
    IF io = "no_dir" THEN [r |-> Fail("EjectError::CreateDir"), fs |-> f]
    ELSE IF f.ejected.exists THEN [r |-> Fail("EjectError::AlreadyEjected"), fs |-> f]
    ELSE IF io = "no_write" THEN [r |-> Fail("EjectError::Write"), fs |-> f]
    ELSE IF io = "short_write"
    THEN [r |-> Fail("EjectError::Write"), fs |-> [f EXCEPT !.ejected = File(<<>>)]]
    ELSE [r |-> Ok(<<>>), fs |-> [f EXCEPT !.ejected = File(dockerfile_content)]]

\* One step of the session: op is started, the calls are logged with their
\* results, lines are printed and the files are left as nfs.
SessionStep(op, calls, results, lines, nfs) ==
    /\ cmd \in {"eject", "bundle", "redeploy"}
    /\ Len(ops) < MaxCalls
    /\ ops' = Append(ops, op)
    /\ log' = log \o calls
    /\ answers' = answers \o results
    /\ out' = out \o lines
    /\ fs' = nfs
    /\ UNCHANGED <<cmd, inp, cloud, pc, inflight, shadow, steps, loc, result>>

\* eject is called with some recipe.
EjectCall ==
    /\ cmd = "eject"
    /\ \E c \in Recipes \ {RenderedRecipe} : \E io \in IoOutcomes :
          LET e == eject(fs, c, io) IN
          SessionStep("eject", <<FsCall("fs.eject", <<c>>)>>, <<e.r>>, <<>>, e.fs)

\* The eject command: load the configuration, discover the project, render
\* the recipe, eject it, and say so.
EjectCommand ==
    /\ cmd = "eject"
    /\ \E io \in IoOutcomes :
          IF inp.config = "bad" \/ inp.cargo = "bad"
          THEN SessionStep("eject_command", <<>>, <<>>, <<>>, fs)
          ELSE LET e == eject(fs, RenderedRecipe, io) IN
               SessionStep("eject_command", <<FsCall("fs.eject", <<RenderedRecipe>>)>>,
                           <<e.r>>,
                           IF e.r.ok
                           THEN <<Lit("Ejected build config to .propel/Dockerfile"),
                                  Lit("You can now edit it directly. propel deploy will use this file.")>>
                           ELSE <<>>,
                           e.fs)

\* load_ejected_dockerfile is called.
LoadEjected ==
    /\ cmd = "eject"
    /\ SessionStep("load_ejected_dockerfile", <<FsCall("fs.load", <<>>)>>,
                   <<load_ejected_dockerfile(fs)>>, <<>>, fs)

\* The owner of the project removes .propel/Dockerfile.
RemoveEjected ==
    /\ fs.ejected.exists
    /\ SessionStep("remove", <<FsCall("fs.remove", <<>>)>>, <<Ok(<<>>)>>, <<>>,
                   [fs EXCEPT !.ejected = NoFile])

\* ------------------------------------------------------------------- bundle
\* A session on one project directory: create_bundle is called, and between
\* the calls the owner edits, deletes and adds files.

\* The files of the working tree that change during the session.
Editable == {DockerfilePath, NotesPath, MainPath}

\* create_bundle is called with some recipe.
CreateBundle ==
    /\ cmd = "bundle"
    /\ \E c \in {RenderedRecipe, HandRecipe} : \E io \in BundleIo :
          LET b == create_bundle(fs, c, Len(log) + 1, io) IN
          SessionStep("create_bundle", <<FsCall("fs.bundle", <<c>>)>>, <<b.r>>, <<>>, b.fs)

\* The owner changes a file of the working tree.
EditFile ==
    /\ cmd \in {"bundle", "redeploy"}
    /\ \E p \in Editable :
          /\ fs.tree[p] = File(V1)
          /\ SessionStep("edit", <<>>, <<>>, <<>>, [fs EXCEPT !.tree[p] = File(V2)])

\* The owner deletes a file of the working tree.
DeleteFile ==
    /\ cmd \in {"bundle", "redeploy"}
    /\ \E p \in Editable :
          /\ fs.tree[p].exists
          /\ SessionStep("delete", <<>>, <<>>, <<>>, [fs EXCEPT !.tree[p] = NoFile])

\* The owner adds a file to the working tree.
AddFile ==
    /\ cmd \in {"bundle", "redeploy"}
    /\ \E p \in Editable :
          /\ ~fs.tree[p].exists
          /\ SessionStep("add", <<>>, <<>>, <<>>, [fs EXCEPT !.tree[p] = File(V1)])

\* ----------------------------------------------------------------- redeploy
\* A project directory is deployed again and again; between the deploys its
\* owner edits, deletes and adds files.

\* The file on disk at a path: the files under .propel-bundle are the bundle.
OnDisk(f, p) ==
    IF p[1] = BundleDir
    THEN IF \E e \in f.staged : e.path = p
         THEN File((CHOOSE e \in f.staged : e.path = p).content)
         ELSE NoFile
    ELSE FileAt(f, p)

\* The bundle directory holds a file git does not track.
BundleUntracked(f) ==
    f.bundle.exists \/ \E e \in f.staged : e.path \notin f.index

\* git status --porcelain: a line for every tracked path that is deleted or
\* differs from its committed content, for every untracked path that is not
\* ignored, and for the bundle directory when it holds untracked files and
\* .gitignore does not list it.
RECURSIVE git_status_from(_, _)
git_status_from(f, i) ==
    IF i > Len(PathOrder) THEN <<>>
    ELSE LET p == PathOrder[i] IN
         (IF p \in f.index
          THEN IF ~OnDisk(f, p).exists THEN << <<" D ", p>> >>
               ELSE IF OnDisk(f, p) # File(V1) THEN << <<" M ", p>> >>
               ELSE <<>>
          ELSE IF p[1] # BundleDir /\ OnDisk(f, p).exists /\ p \notin Ignored
               THEN << <<"?? ", p>> >>
               ELSE <<>>)
         \o git_status_from(f, i + 1)
git_status(f) ==
    (IF BundleUntracked(f) /\ ~f.ignore_bundle THEN << <<"?? ", <<BundleDir, "/">> >> >> ELSE <<>>)
    \o git_status_from(f, 1)

\* bundle::is_dirty: `Ok(!output.stdout.is_empty())`.
is_dirty(f) == git_status(f) # <<>>

\* One deploy of the project: the dirty gate, the configuration, the recipe
\* and the bundle; what follows the bundle leaves the directory alone.
Redeploy ==
    /\ cmd = "redeploy"
    /\ \E allow_dirty \in BOOLEAN : \E config \in {"ok", "bad"} :
          LET call == FsCall("deploy", <<IF allow_dirty THEN <<"--allow-dirty">> ELSE <<>> >>)
              content == DockerfileContent(fs)
              bundled == create_bundle(fs, content.out, Len(log) + 1, "ok")
          IN  IF ~allow_dirty /\ is_dirty(fs)
              THEN SessionStep("deploy", <<call>>, <<Fail("uncommitted changes detected")>>,
                               <<>>, fs)
              ELSE IF config = "bad" \/ ~content.ok
              THEN SessionStep("deploy", <<call>>, <<Fail("configuration")>>, <<>>, fs)
              ELSE SessionStep("deploy", <<call>>, <<bundled.r>>, <<>>, bundled.fs)

\* -------------------------------------------------------------- two deploys
\* deploy_pipeline::run and the deploy tool of the MCP server, each as the
\* function its code computes from the project (i, f) and the outcomes os of
\* the client operations it awaited so far: check_prerequisites (Ok with the
\* disabled APIs), ensure_artifact_repo, the captured build submission,
\* list_secrets and deploy_to_cloud_run.  The value is the operations started,
\* the step lines pushed, and whether the pipeline awaits the next outcome,
\* has aborted or has finished.

Awaits(o, s) == [ops |-> o, steps |-> s, status |-> "awaiting"]
Aborted(o, s) == [ops |-> o, steps |-> s, status |-> "aborted"]
Finished(o, s) == [ops |-> o, steps |-> s, status |-> "finished"]

\* The lines of a failed listing and of the secrets found.
WarnListing == <<"Warning: could not list secrets: ", "failed to list secrets">>
NoSecretsFound == Lit("No secrets found in Secret Manager")
WillBeInjected(secrets) == <<NumStr(Len(secrets)), " secret(s) will be injected">>

\* deploy_pipeline::run(project_dir, allow_dirty, capture_build = true).
deploy_pipeline_run(i, f, os) ==
    LET a0 == IF i.allow_dirty THEN <<>> ELSE <<"is_dirty">>
        a1 == a0 \o <<"load_config">>
        a2 == a1 \o <<"load_meta">>
        a3 == a2 \o <<"check_prerequisites">>
        a4 == a3 \o <<"ensure_artifact_repo">>
        a5 == a4 \o <<IF is_ejected(f) THEN "load_ejected_dockerfile" ELSE "render">>
        a6 == a5 \o <<"create_bundle">>
        a7 == a6 \o <<"submit_build">>
        a8 == a7 \o <<"list_secrets">>
        a9 == a8 \o <<"deploy_to_cloud_run">>
        content == DockerfileContent(f)
        bundled == create_bundle(f, content.out, 1,
                                 IF i.tree = "nogit" THEN "nogit" ELSE "ok")
        secrets == DiscoveredSecrets(os[4])
        s1 == <<Lit("Pre-flight checks passed")>>
        s2 == s1 \o <<Lit("Artifact Registry repository ensured")>>
        s3 == s2 \o (IF is_ejected(f) THEN <<Lit("Using ejected Dockerfile")>> ELSE <<>>)
        s4 == s3 \o <<Lit("Source bundled")>>
        s5 == s4 \o <<Lit("Cloud Build completed")>>
        s6 == s5 \o (IF os[4].ok THEN <<>> ELSE <<WarnListing>>)
                 \o (IF secrets = <<>> THEN <<NoSecretsFound>>
                     ELSE <<WillBeInjected(secrets)>>)
        s7 == s6 \o << <<"Deployed: ", os[5].out[1]>> >>
    IN  IF ~i.allow_dirty /\ i.tree # "clean" THEN Aborted(a0, <<>>)
        ELSE IF i.config = "bad" THEN Aborted(a1, <<>>)
        ELSE IF i.cargo = "bad" \/ i.pid = NONE THEN Aborted(a2, <<>>)
        ELSE IF Len(os) < 1 THEN Awaits(a3, <<>>)
        ELSE IF ~os[1].ok \/ os[1].out # <<>> THEN Aborted(a3, <<>>)
        ELSE IF Len(os) < 2 THEN Awaits(a4, s1)
        ELSE IF ~os[2].ok THEN Aborted(a4, s1)
        ELSE IF ~content.ok THEN Aborted(a5, s3)
        ELSE IF ~bundled.r.ok THEN Aborted(a6, s3)
        ELSE IF Len(os) < 3 THEN Awaits(a7, s4)
        ELSE IF ~os[3].ok THEN Aborted(a7, s4)
        ELSE IF Len(os) < 4 THEN Awaits(a8, s5)
        ELSE IF Len(os) < 5 THEN Awaits(a9, s6)
        ELSE IF ~os[5].ok THEN Aborted(a9, s6)
        ELSE Finished(a9, s7)

\* PropelMcpServer::prepare_bundle: the step lines it pushes and whether it
\* returned the bundle directory.
prepare_bundle(i, f) ==
    LET content == DockerfileContent(f)
        bundled == create_bundle(f, content.out, 1,
                                 IF i.tree = "nogit" THEN "nogit" ELSE "ok")
        using == IF is_ejected(f) THEN <<Lit("Using ejected Dockerfile")>> ELSE <<>>
        recipe == IF is_ejected(f) THEN "load_ejected_dockerfile" ELSE "render"
    IN  IF ~content.ok THEN [ok |-> FALSE, ops |-> <<recipe>>, steps |-> using]
        ELSE IF ~bundled.r.ok
        THEN [ok |-> FALSE, ops |-> <<recipe, "create_bundle">>, steps |-> using]
        ELSE [ok |-> TRUE, ops |-> <<recipe, "create_bundle">>,
              steps |-> using \o <<Lit("Source bundled")>>]

\* PropelMcpServer::discover_secrets answered r: the step line it pushes.
discover_secrets(r) ==
    IF r.ok
    THEN IF r.out = <<>> THEN <<NoSecretsFound>> ELSE <<WillBeInjected(r.out)>>
    ELSE <<WarnListing>>

\* PropelMcpServer::deploy, once project_path returned the project directory.
mcp_deploy(i, f, os) ==
    LET a0 == IF i.allow_dirty THEN <<>> ELSE <<"is_dirty">>
        a1 == a0 \o <<"load_config">>
        a2 == a1 \o <<"load_meta">>
        a3 == a2 \o <<"check_prerequisites">>
        a4 == a3 \o <<"ensure_artifact_repo">>
        p == prepare_bundle(i, f)
        a6 == a4 \o p.ops
        a7 == a6 \o <<"submit_build">>
        a8 == a7 \o <<"list_secrets">>
        a9 == a8 \o <<"deploy_to_cloud_run">>
        s1 == <<Lit("Pre-flight checks passed")>>
        s2 == s1 \o <<Lit("Artifact Registry repository ensured")>>
        s4 == s2 \o p.steps
        s5 == s4 \o <<Lit("Cloud Build completed")>>
        s6 == s5 \o discover_secrets(os[4])
        s7 == s6 \o << <<"Deployed: ", os[5].out[1]>> >>
    IN  IF ~i.allow_dirty /\ i.tree # "clean" THEN Aborted(a0, <<>>)
        ELSE IF i.config = "bad" THEN Aborted(a1, <<>>)
        ELSE IF i.cargo = "bad" \/ i.pid = NONE THEN Aborted(a2, <<>>)
        ELSE IF Len(os) < 1 THEN Awaits(a3, <<>>)
        ELSE IF ~os[1].ok \/ os[1].out # <<>> THEN Aborted(a3, <<>>)
        ELSE IF Len(os) < 2 THEN Awaits(a4, s1)
        ELSE IF ~os[2].ok THEN Aborted(a4, s1)
        ELSE IF ~p.ok THEN Aborted(a6, s4)
        ELSE IF Len(os) < 3 THEN Awaits(a7, s4)
        ELSE IF ~os[3].ok THEN Aborted(a7, s4)
        ELSE IF Len(os) < 4 THEN Awaits(a8, s5)
        ELSE IF Len(os) < 5 THEN Awaits(a9, s6)
        ELSE IF ~os[5].ok THEN Aborted(a9, s6)
        ELSE Finished(a9, s7)

\* What a client operation may return to a pipeline.
StepOutcomes(op) ==
    CASE op = "check_prerequisites" ->
            {Fail("PreflightError::GcloudNotInstalled"), Fail("PreflightError::NotAuthenticated"),
             Fail("PreflightError::ProjectNotAccessible"), Ok(<<>>),
             Ok(<<PreflightApis[2]>>), Ok(<<PreflightApis[1], PreflightApis[3]>>)}
      [] op = "ensure_artifact_repo" -> {Ok(<<>>), Fail("DeployError::Deploy")}
      [] op = "submit_build" ->
            {Ok(<<"build log">>), Ok(<<>>), Fail("CloudBuildError::Submit")}
      [] op = "list_secrets" ->
            {Ok(SubSeq(SecretNamePool, 1, n)) : n \in 0..MaxSecrets}
                \cup {Fail("SecretError::List")}
      [] OTHER -> {Ok(<<ServiceUrl>>), Fail("DeployError::Deploy")}

\* Both pipelines are given the outcomes so far: ops and steps are those of
\* deploy_pipeline::run, loc.twin and out those of the MCP tool.
Together(os) ==
    LET r == deploy_pipeline_run(inp, fs, os)
        m == mcp_deploy(inp, fs, os)
    IN  /\ ops' = r.ops
        /\ steps' = r.steps
        /\ out' = m.steps
        /\ loc' = [loc EXCEPT !.twin = m.ops]
        /\ answers' = os
        /\ result' = CASE r.status = "awaiting" -> Running
                        [] r.status = "finished" -> ResultOk
                        [] OTHER -> Err("anyhow", {})
        /\ UNCHANGED <<cmd, inp, cloud, inflight, shadow, fs>>

\* Both pipelines start on the same project and run to their first await.
BothStart ==
    /\ cmd = "both"
    /\ At("start")
    /\ pc' = "await"
    /\ log' = log
    /\ Together(<<>>)

\* The operation both await returns the same outcome to each.
BothAnswered ==
    /\ cmd = "both"
    /\ At("await")
    /\ pc' = pc
    /\ log' = Append(log, FsCall(ops[Len(ops)], <<>>))
    /\ \E o \in StepOutcomes(ops[Len(ops)]) : Together(Append(answers, o))

\* -------------------------------------------------------------------- cargo
\* The two ways the entry point of a project is found.

\* binaries.iter().any(|b| b.name == name)
any_named(binaries, name) == \E i \in DOMAIN binaries : binaries[i] = name

\* A mutant of resolve_default_binary: of several binaries the first is taken.
resolve_default_binary_First(binaries, default_run, package_name) ==
    IF default_run # NONE /\ any_named(binaries, default_run) THEN Ok(default_run)
    ELSE IF Len(binaries) = 0 THEN Fail("Error::NoBinaryTarget")
    ELSE Ok(binaries[1])

\* CargoProject::resolve_default_binary: default-run if it names a binary, the
\* single binary, the binary named like the package, or an error.
resolve_default_binary(binaries, default_run, package_name) ==
    IF default_run # NONE /\ any_named(binaries, default_run) THEN Ok(default_run)
    ELSE IF Len(binaries) = 0 THEN Fail("Error::NoBinaryTarget")
    ELSE IF Len(binaries) = 1 THEN Ok(binaries[1])
    ELSE IF any_named(binaries, package_name) THEN Ok(package_name)
    ELSE Fail("Error::MultipleBinaries")

\* ProjectMeta::from_cargo_toml on a manifest that parses and has a package
\* name: the name of the first [[bin]] entry, or the package name.
from_cargo_toml(manifest) ==
    IF manifest.bins # <<>> /\ manifest.bins[1] # NONE
    THEN Ok(manifest.bins[1])
    ELSE Ok(manifest.name)

\* The outcome of a resolution, as the result of the run.
Resolved(r) ==
    Go("done", <<"resolve">>, <<>>, <<>>,
       [loc EXCEPT !.binary = IF r.ok THEN r.out ELSE NONE], <<>>,
       IF r.ok THEN ResultOk ELSE Err(r.err, {}))

\* CargoProject::discover resolves the binary of the package cargo metadata
\* reported.
Discover ==
    /\ cmd = "discover"
    /\ At("resolve")
    /\ Resolved(resolve_default_binary(inp.manifest.bins, inp.manifest.default_run,
                                       inp.manifest.name))

\* The deploy pipeline loads the identity of the project.
LoadMeta ==
    /\ cmd = "meta"
    /\ At("resolve")
    /\ Resolved(from_cargo_toml(inp.manifest))

\* ---------------------------------------------------------------------- mcp
\* One server session: the tool invocations run concurrently, each calls
\* project_path.  resolved_path is the OnceCell (NONE while empty), permit the
\* invocation that holds the cell's initialisation permit (0: nobody).

Invocations == 1..MaxInvocations

\* The directories that exist, and what the client may answer to list_roots.
ExistingDirs == {<<"/work/a">>, <<"/work/b">>}
RootsAnswers ==
    {Fail("roots unsupported"), Ok(<<>>), Ok(<< <<"http://", "host/x">> >>),
     Ok(<< <<"file://", "/gone">> >>), Ok(<< <<"file://", "/work/a">> >>),
     Ok(<< <<"file://", "/work/b">>, <<"file://", "/work/a">> >>)}

\* The closure given to get_or_try_init: the first root if it is a file://
\* URI of an existing directory, else the -p path, else an error.
resolve_path(roots, cli_path) ==
    IF roots.ok /\ roots.out # <<>> /\ roots.out[1][1] = "file://"
       /\ Tail(roots.out[1]) \in ExistingDirs
    THEN Ok(Tail(roots.out[1]))
    ELSE IF cli_path # NONE THEN Ok(cli_path)
    ELSE Fail("McpError::internal_error")

\* One step of invocation i.
McpStep(i, op, npc, nret, cell, holder) ==
    /\ loc' = [loc EXCEPT !.tool[i] = [pc |-> npc, ret |-> nret],
                          !.resolved_path = cell, !.permit = holder]
    /\ ops' = ops \o op
    /\ UNCHANGED <<cmd, inp, cloud, pc, inflight, answers, log, shadow, steps, out, result, fs>>

\* A mutant of permit_free: the permit is handed out while it is held.
permit_free_Always(l) == TRUE

\* The initialisation permit of the cell is free.
permit_free(l) == l.permit = 0

\* A tool is invoked and calls project_path: get_or_try_init returns the
\* stored value at once, or queues for the permit.
ToolCall ==
    /\ cmd = "mcp"
    /\ \E i \in Invocations :
          /\ loc.tool[i].pc = "idle"
          /\ \A j \in Invocations : j < i => loc.tool[j].pc # "idle"
          /\ IF loc.resolved_path # NONE
             THEN McpStep(i, <<>>, "returned", Ok(loc.resolved_path), loc.resolved_path,
                          loc.permit)
             ELSE McpStep(i, <<>>, "waiting", NoResp, loc.resolved_path, loc.permit)

\* A queued invocation is woken: the cell was filled meanwhile, or it gets
\* the permit and starts the resolution with the roots query.
Acquire ==
    /\ cmd = "mcp"
    /\ \E i \in Invocations :
          /\ loc.tool[i].pc = "waiting"
          /\ IF loc.resolved_path # NONE
             THEN McpStep(i, <<>>, "returned", Ok(loc.resolved_path), loc.resolved_path,
                          loc.permit)
             ELSE /\ permit_free(loc)
                  /\ McpStep(i, <<"resolve">>, "resolving", NoResp, NONE, i)

\* A mutant of Resolve: a failed resolution leaves the working directory in
\* the cell.
Resolve_CachesFallback ==
    /\ cmd = "mcp"
    /\ \E i \in Invocations : \E roots \in RootsAnswers :
          /\ loc.tool[i].pc = "resolving"
          /\ LET r == resolve_path(roots, inp.cli_path) IN
             IF r.ok
             THEN McpStep(i, <<"store">>, "returned", r, r.out, 0)
             ELSE McpStep(i, <<"fail">>, "returned", r, <<".">>, 0)

\* list_roots is answered: the resolution ends; a path is stored in the cell,
\* an error is returned and leaves the cell empty.  The permit is given back.
Resolve ==
    /\ cmd = "mcp"
    /\ \E i \in Invocations : \E roots \in RootsAnswers :
          /\ loc.tool[i].pc = "resolving"
          /\ LET r == resolve_path(roots, inp.cli_path) IN
             IF r.ok
             THEN McpStep(i, <<"store">>, "returned", r, r.out, 0)
             ELSE McpStep(i, <<"fail">>, "returned", r, loc.resolved_path, 0)

\* The request of an invocation is cancelled while it waits or resolves: its
\* future is dropped and gives back the permit it holds.
Cancel ==
    /\ cmd = "mcp"
    /\ \E i \in Invocations :
          /\ loc.tool[i].pc \in {"waiting", "resolving"}
          /\ McpStep(i, <<"cancel">>, "cancelled", NoResp, loc.resolved_path,
                     IF loc.permit = i THEN 0 ELSE loc.permit)

\* ------------------------------------------------------------------- render
\* The recipe of a build configuration is rendered.
RenderRecipe ==
    /\ cmd = "render"
    /\ At("render")
    /\ Go("done", <<"render">>, <<>>, <<>>,
          [loc EXCEPT !.dockerfile = render(inp.build, [binary_name |-> ServiceName], "8080")],
          <<>>, ResultOk)

\* ------------------------------------------------------------ initial states

\* The working tree of a project: sources and a build output; the committed
\* file under .propel-bundle is no longer in the tree.
DefaultTree ==
    [p \in Range(PathOrder) \ {EjectedPath} |->
        IF p \in {StalePath, DockerfilePath} THEN NoFile ELSE File(V1)]

DefaultInp ==
    [allow_dirty |-> FALSE, capture |-> FALSE, tree |-> "clean", config |-> "ok",
     pid |-> ProjectId, cargo |-> "ok", ejected |-> NoFile,
     key_value |-> <<>>, key_value2 |-> <<>>, key |-> NONE, value |-> <<>>,
     value2 |-> <<>>, skip_confirm |-> TRUE, answer |-> "",
     workflow |-> FALSE, remote |-> <<>>, include_secrets |-> FALSE,
     include_ci |-> FALSE, bundle |-> FALSE, staged |-> {}, worktree |-> DefaultTree,
     index |-> Tracked, ignore_bundle |-> TRUE,
     build |-> BuildConfig_default,
     manifest |-> [name |-> ServiceName, bins |-> <<>>, default_run |-> NONE],
     cli_path |-> NONE]

DeployInputs(c) ==
    {[DefaultInp EXCEPT !.allow_dirty = a, !.capture = k, !.tree = t, !.config = g,
                        !.pid = p, !.cargo = m, !.ejected = e] :
        a \in BOOLEAN, k \in (IF c = "run" THEN BOOLEAN ELSE {FALSE}),
        t \in {"clean", "dirty", "nogit"}, g \in {"ok", "bad"},
        p \in {NONE, ProjectId}, m \in {"ok", "bad"},
        e \in {NoFile, File(EditedRecipe), Unreadable}}
    \cup {[DefaultInp EXCEPT !.ejected = File(r)] : r \in Recipes}

DefaultCloud ==
    [apis |-> AllApis, repo |-> FALSE, secrets |-> {},
     versions |-> [n \in SecretNames |-> 0],
     granted |-> {}, image |-> FALSE, service |-> FALSE,
     pool |-> FALSE, provider |-> FALSE, sa |-> FALSE, roles |-> {}, wif_bound |-> FALSE,
     billing |-> TRUE]

DeployClouds ==
    {[DefaultCloud EXCEPT !.apis = a, !.repo = r, !.secrets = s] :
        a \in SUBSET AllApis, r \in BOOLEAN, s \in SUBSET SecretNames}

InitWith(c, i, cl, p) ==
    /\ cmd = c
    /\ inp = i
    /\ cloud = cl
    /\ pc = p
    /\ inflight = {}
    /\ answers = <<>>
    /\ log = <<>>
    /\ shadow = <<>>
    /\ ops = <<>>
    /\ steps = <<>>
    /\ out = <<>>
    /\ loc = NoLocals
    /\ result = Running
    /\ fs = [ejected |-> i.ejected, bundle |-> NoFile, staged |-> i.staged,
             tree |-> i.worktree, index |-> i.index, ignore_bundle |-> i.ignore_bundle]

InitDeploy ==
    \E c \in DeployCmds : \E i \in DeployInputs(c) : \E cl \in DeployClouds :
        InitWith(c, i, cl, "dirty_gate")

NextDeploy ==
    \/ DirtyGate
    \/ LoadConfiguration
    \/ PreflightVersion
    \/ PreflightAuth
    \/ PreflightProject
    \/ PreflightApiNext
    \/ PreflightDoneDeploy
    \/ EnsureRepoProbed
    \/ EnsureRepoCreated
    \/ BuildSubmitted
    \/ SecretsDiscovered
    \/ Deployed
    \/ Exec
    \/ OtherRunCreatesRepo

\* One run of the deploy pipeline, from either entry point.
SpecDeploy == InitDeploy /\ [][NextDeploy]_vars

\* The values a secret is set to on the command line; a value may hold '='.
SecretValueArgs == {Lit(v) : v \in SecretValues} \cup {<<"k", "=", "v">>}

\* `KEY=VALUE` arguments with their twin (same key, any value), and arguments
\* without '='.
SecretSetInputs ==
    {[DefaultInp EXCEPT !.key_value = <<k, "=">> \o v, !.key_value2 = <<k, "=">> \o w,
                        !.config = g, !.pid = p] :
        k \in SecretNames, v \in SecretValueArgs, w \in SecretValueArgs,
        g \in {"ok", "bad"}, p \in {NONE, ProjectId}}
    \cup {[DefaultInp EXCEPT !.key_value = <<k>>, !.key_value2 = <<k>>, !.pid = p] :
             k \in SecretNames, p \in {NONE, ProjectId}}

SecretDeleteInputs ==
    {[DefaultInp EXCEPT !.key = k, !.skip_confirm = y, !.answer = a, !.config = g,
                        !.pid = p] :
        k \in SecretNames, y \in BOOLEAN, a \in {"y", "YES", "n", ""},
        g \in {"ok", "bad"}, p \in {NONE, ProjectId}}

SecretListInputs ==
    {[DefaultInp EXCEPT !.config = g, !.pid = p] :
        g \in {"ok", "bad"}, p \in {NONE, ProjectId}}

\* The values ci_init hands to set_gh_secret.
GhSecretValues == {Lit(ProjectId), WifProvider(ProjectNumber), SaEmail(ProjectId)}

GhSecretSetInputs ==
    {[DefaultInp EXCEPT !.key = GH_SECRET_NAMES[n], !.value = v, !.value2 = w] :
        n \in DOMAIN GH_SECRET_NAMES, v \in GhSecretValues, w \in GhSecretValues}

\* Secret Manager before the command: some secrets exist, with versions and
\* with or without the runtime identity's access.
SecretClouds ==
    {[DefaultCloud EXCEPT !.secrets = s, !.granted = g,
                          !.versions = [n \in SecretNames |-> IF n \in v THEN 1 ELSE 0]] :
        s \in SUBSET SecretNames, g \in SUBSET SecretNames, v \in SUBSET SecretNames}

InitSecret ==
    \/ \E i \in SecretSetInputs : \E cl \in SecretClouds : InitWith("secret_set", i, cl, "start")
    \/ \E i \in SecretDeleteInputs : \E cl \in SecretClouds :
          InitWith("secret_delete", i, cl, "start")
    \/ \E i \in SecretListInputs : \E cl \in SecretClouds : InitWith("secret_list", i, cl, "start")
    \/ \E i \in GhSecretSetInputs : InitWith("set_gh_secret", i, DefaultCloud, "start")

NextSecret ==
    \/ SecretSetStart
    \/ SetSecretProbed
    \/ SetSecretCreated
    \/ SetSecretVersionAdded
    \/ SecretSetNumbered
    \/ SecretSetGranted
    \/ SecretDeleteStart
    \/ SecretDeleteNumbered
    \/ SecretDeleteRevoked
    \/ SecretDeleteDeleted
    \/ SecretListStart
    \/ SecretListListed
    \/ GhSecretSetStart
    \/ GhSecretSetDone
    \/ Exec

\* One run of a secret command.
SpecSecret == InitSecret /\ [][NextSecret]_vars

\* The origin remotes of the project directory.
Remotes ==
    {NoRemote,
     <<"git@github.com:", "owner/repo", ".git">>,
     <<"https://github.com/", "owner/repo">>,
     <<"https://github.com/", "owner/repo", "/">>,
     <<"https://gitlab.com/", "owner/repo", ".git">>}

CiInputs ==
    {[DefaultInp EXCEPT !.workflow = w, !.remote = r, !.config = g, !.pid = p] :
        w \in BOOLEAN, r \in Remotes, g \in {"ok", "bad"}, p \in {NONE, ProjectId}}

\* The project before ci_init: any of the resources may be left from an
\* earlier run.
CiClouds ==
    {[DefaultCloud EXCEPT !.apis = a, !.pool = x, !.provider = y, !.sa = z] :
        a \in {AllApis, AllApis \ {"run.googleapis.com"}},
        x \in BOOLEAN, y \in BOOLEAN, z \in BOOLEAN}

InitCi == \E i \in CiInputs : \E cl \in CiClouds : InitWith("ci_init", i, cl, "start")

NextCi ==
    \/ CiStart
    \/ CiGhVersion
    \/ CiGhAuth
    \/ PreflightVersion
    \/ PreflightAuth
    \/ PreflightProject
    \/ PreflightApiNext
    \/ PreflightDoneCi
    \/ CiPoolEnsured
    \/ CiProviderEnsured
    \/ CiSaEnsured
    \/ CiRoleNext
    \/ CiRolesBound
    \/ CiNumbered
    \/ CiWifBound
    \/ CiGhSecretNext
    \/ CiWorkflowWritten
    \/ Exec

\* One run of ci_init.
SpecCi == InitCi /\ [][NextCi]_vars

\* The flags of destroy with a loadable project, and the unloadable projects.
DestroyInputs ==
    {[DefaultInp EXCEPT !.skip_confirm = (a = ""), !.answer = a, !.include_secrets = x,
                        !.include_ci = y, !.workflow = w, !.bundle = b] :
        a \in {"", "y", "YES", "n", "Yes"}, x \in BOOLEAN, y \in BOOLEAN, w \in BOOLEAN,
        b \in BOOLEAN}
    \cup {[DefaultInp EXCEPT !.config = g, !.cargo = m, !.pid = p] :
             g \in {"ok", "bad"}, m \in {"ok", "bad"}, p \in {NONE, ProjectId}}

\* The project before destroy: deployed or not, with or without secrets and
\* CI resources.
DestroyClouds ==
    {[DefaultCloud EXCEPT !.service = d, !.image = d, !.secrets = s,
                          !.pool = c, !.provider = c, !.sa = c] :
        d \in BOOLEAN, s \in {{}, SecretNames}, c \in BOOLEAN}

InitDestroy ==
    \E i \in DestroyInputs : \E cl \in DestroyClouds : InitWith("destroy", i, cl, "start")

NextDestroy ==
    \/ DestroyStart
    \/ DestroyListed
    \/ DestroyServiceDeleted
    \/ DestroyImageDeleted
    \/ DestroySecretNext
    \/ DestroySecretsDeleted
    \/ DestroyPoolDeleted
    \/ DestroySaDeleted
    \/ DestroyGhSecretNext
    \/ DestroyCiDeleted
    \/ Exec

\* One run of destroy.
SpecDestroy == InitDestroy /\ [][NextDestroy]_vars

\* One run of any one command.
\* doctor runs with or without propel.toml, readable or not, with or without
\* a project id in it.
DoctorInputs ==
    {[DefaultInp EXCEPT !.config = g, !.pid = p] :
        g \in {"ok", "bad", "missing"}, p \in {NONE, ProjectId}}

\* The project doctor probes: billing on or off, any of the APIs enabled.
DoctorClouds ==
    {[DefaultCloud EXCEPT !.apis = a, !.billing = b] : a \in SUBSET AllApis, b \in BOOLEAN}

InitDoctor ==
    \E i \in DoctorInputs : \E cl \in DoctorClouds : InitWith("doctor", i, cl, "start")

NextDoctor ==
    \/ DoctorStart
    \/ DoctorVersion
    \/ DoctorAccount
    \/ DoctorProject
    \/ DoctorBilling
    \/ DoctorApiNext
    \/ DoctorApisDone
    \/ Exec

\* One run of doctor.
SpecDoctor == InitDoctor /\ [][NextDoctor]_vars

\* The eject command runs with a configuration and a manifest that load or do
\* not; the session starts in a project that was never ejected.
EjectInputs ==
    {[DefaultInp EXCEPT !.config = g] : g \in {"ok", "bad"}}
    \cup {[DefaultInp EXCEPT !.cargo = "bad"]}

InitEject == \E i \in EjectInputs : InitWith("eject", i, DefaultCloud, "session")

NextEject ==
    \/ EjectCall
    \/ EjectCommand
    \/ LoadEjected
    \/ RemoveEjected

\* A session of eject calls on one project directory.
SpecEject == InitEject /\ [][NextEject]_vars

\* The bundle session starts with or without an ejected recipe and with or
\* without a bundle left by an earlier run.
BundleInputs ==
    {[DefaultInp EXCEPT !.ejected = e, !.staged = b] :
        e \in {NoFile, File(EditedRecipe)},
        b \in {{}, {[path |-> StalePath, content |-> V1, by |-> 0]}}}

InitBundle == \E i \in BundleInputs : InitWith("bundle", i, DefaultCloud, "session")

NextBundle ==
    \/ CreateBundle
    \/ EditFile
    \/ DeleteFile
    \/ AddFile

\* A session of create_bundle calls on one project directory.
SpecBundle == InitBundle /\ [][NextBundle]_vars

\* The sequences over S of length up to n.
SeqsUpTo(S, n) == UNION {[1..k -> S] : k \in 0..n}

PackagePool == {"libssl-dev", "pkg-config"}
PathPool == {<<"migrations", "/">>, <<"assets", "/", "css", "/">>, <<"seeds.txt">>}
KeyPool == {"APP_ENV", "LUA_DIR", "TEMPLATE_DIR"}
ValuePool == {"/app/lua", "production"}

\* The environment maps: no key twice, in every iteration order.
EnvMaps ==
    {e \in SeqsUpTo(KeyPool \X ValuePool, MaxEnv) :
        \A i, j \in DOMAIN e : i # j => e[i][1] # e[j][1]}

BuildConfigs ==
    {[BuildConfig_default EXCEPT !.extra_packages = x, !.include = n, !.env = e] :
        x \in SeqsUpTo(PackagePool, MaxPackages),
        n \in {None} \cup {Some(ps) : ps \in SeqsUpTo(PathPool, MaxPaths)},
        e \in EnvMaps}

InitRender ==
    \E b \in BuildConfigs :
        InitWith("render", [DefaultInp EXCEPT !.build = b], DefaultCloud, "render")

NextRender == RenderRecipe

\* The recipe of one build configuration is rendered.
SpecRender == InitRender /\ [][NextRender]_vars

\* A committed project with a clean tree: made by `propel new`, whose
\* .gitignore lists .propel-bundle/, or an existing project set up with
\* `propel init`, which writes no .gitignore.
RedeployInputs ==
    {[DefaultInp EXCEPT !.index = Tracked \ {StalePath}, !.ignore_bundle = g] :
        g \in BOOLEAN}

InitRedeploy == \E i \in RedeployInputs : InitWith("redeploy", i, DefaultCloud, "session")

NextRedeploy ==
    \/ Redeploy
    \/ EditFile
    \/ DeleteFile
    \/ AddFile

\* Repeated deploys of one project directory.
SpecRedeploy == InitRedeploy /\ [][NextRedeploy]_vars

\* The projects the two pipelines are run on.
BothInputs ==
    {[DefaultInp EXCEPT !.allow_dirty = a, !.capture = TRUE, !.tree = t, !.config = g,
                        !.pid = p, !.cargo = m, !.ejected = e] :
        a \in BOOLEAN, t \in {"clean", "dirty", "nogit"}, g \in {"ok", "bad"},
        p \in {NONE, ProjectId}, m \in {"ok", "bad"},
        e \in {NoFile, File(EditedRecipe), Unreadable}}

InitBoth == \E i \in BothInputs : InitWith("both", i, DefaultCloud, "start")

NextBoth ==
    \/ BothStart
    \/ BothAnswered

\* deploy_pipeline::run and the MCP deploy tool, side by side.
SpecBoth == InitBoth /\ [][NextBoth]_vars

NamePool == {ServiceName, "worker", "cli"}

\* The packages: their binary targets in the order of the manifest, the
\* default-run key and the package name.  A [[bin]] entry of a manifest may
\* lack its name.
Manifests(names) ==
    {[name |-> n, bins |-> b, default_run |-> d] :
        n \in NamePool, b \in SeqsUpTo(names, MaxBins), d \in NamePool \cup {NONE}}

InitCargo ==
    \/ \E m \in Manifests(NamePool) :
          InitWith("discover", [DefaultInp EXCEPT !.manifest = m], DefaultCloud, "resolve")
    \/ \E m \in Manifests(NamePool \cup {NONE}) :
          InitWith("meta", [DefaultInp EXCEPT !.manifest = m], DefaultCloud, "resolve")

NextCargo ==
    \/ Discover
    \/ LoadMeta

\* The entry point of one package is resolved.
SpecCargo == InitCargo /\ [][NextCargo]_vars

\* The server is started with or without -p.
InitMcp ==
    \E p \in {NONE, <<"/cli">>} :
        InitWith("mcp", [DefaultInp EXCEPT !.cli_path = p], DefaultCloud, "serving")

NextMcp ==
    \/ ToolCall
    \/ Acquire
    \/ Resolve
    \/ Cancel

\* One MCP server session.
SpecMcp == InitMcp /\ [][NextMcp]_vars

Init ==
    InitDeploy \/ InitSecret \/ InitCi \/ InitDestroy \/ InitDoctor \/ InitEject
    \/ InitBundle \/ InitRender \/ InitCargo \/ InitMcp \/ InitRedeploy
    \/ InitBoth

Next ==
    NextDeploy \/ NextSecret \/ NextCi \/ NextDestroy \/ NextDoctor \/ NextEject
    \/ NextBundle \/ NextRender \/ NextCargo \/ NextMcp \/ NextRedeploy
    \/ NextBoth

Spec == Init /\ [][Next]_vars

\* ------------------------------------------------------------------ claims

Issued(o) == \E k \in DOMAIN log : log[k].op = o
Started(o) == o \in Range(ops)
Answered(k) == k \in DOMAIN log /\ k \notin inflight
Done == pc = "done"

\* The operations of a deploy run that touch the configuration, the bundle or
\* the cloud.
AfterGateOps ==
    {"load_config", "load_meta", "check_prerequisites", "ensure_artifact_repo", "render",
     "load_ejected_dockerfile", "create_bundle", "submit_build", "list_secrets",
     "deploy_to_cloud_run"}

\* C1: with allow_dirty false and a tree that is_dirty reports as changed, a
\* deploy fails with an error containing "uncommitted changes" and has loaded
\* no configuration, bundled nothing and issued no command; with allow_dirty
\* true is_dirty is never called and, whatever the tree, the run goes on to
\* load the configuration.
C1_DirtyGate ==
    cmd \in DeployCmds /\ pc # "dirty_gate" =>
        /\ (~inp.allow_dirty /\ inp.tree = "dirty") =>
              /\ Done /\ ~result.ok
              /\ "uncommitted changes" \in result.text
              /\ Range(ops) \cap AfterGateOps = {}
              /\ log = <<>>
        /\ inp.allow_dirty =>
              /\ ~Started("is_dirty")
              /\ pc = "load_config" \/ ops[1] = "load_config"
              /\ result.kind # "Dirty"

C1_Witness ==
    /\ cmd = "deploy" /\ ~inp.allow_dirty /\ inp.tree = "dirty"
    /\ Done /\ result.kind = "Dirty"

LogOps == [k \in DOMAIN log |-> log[k].op]

IsPipelineOp(o) ==
    o \in {"check_prerequisites", "ensure_artifact_repo", "create_bundle", "submit_build",
           "list_secrets", "deploy_to_cloud_run"}

\* The commands of a successful deploy up to the registry probe, and after
\* ensure_artifact_repo.
CommandsBeforeRepo ==
    <<"version", "auth", "project.describe", "services.list", "services.list",
      "services.list", "repo.describe">>
CommandsAfterRepo == <<"build.submit", "secrets.list", "run.deploy">>

\* C2: in every deploy run that succeeds the pipeline operations occur once
\* each, in the order readiness probe, ensure registry, compose bundle, submit
\* build, list secrets, deploy; and at every moment of every run at most one
\* command is in flight, which is the one issued last.
C2_OrderedSingleFlight ==
    cmd \in DeployCmds =>
        /\ Cardinality(inflight) <= 1
        /\ inflight \subseteq {Len(log)}
        /\ (Done /\ result.ok) =>
              /\ SelectSeq(ops, IsPipelineOp) =
                    <<"check_prerequisites", "ensure_artifact_repo", "create_bundle",
                      "submit_build", "list_secrets", "deploy_to_cloud_run">>
              /\ LogOps \in {CommandsBeforeRepo \o CommandsAfterRepo,
                             CommandsBeforeRepo \o <<"repo.create">> \o CommandsAfterRepo}

C2_Witness ==
    /\ cmd = "run" /\ Done /\ result.ok
    /\ Issued("repo.create")
    /\ steps[Len(steps)] = <<"Deployed: ", ServiceUrl>>

\* C3: if submit_build fails, the run aborts with that error and neither
\* list_secrets nor deploy_to_cloud_run is invoked.
C3_NoPartialDeploy ==
    \A k \in DOMAIN log :
        (cmd \in DeployCmds /\ log[k].op = "build.submit" /\ Answered(k) /\ ~answers[k].ok) =>
            /\ ~Issued("secrets.list") /\ ~Issued("run.deploy")
            /\ ~Started("list_secrets") /\ ~Started("deploy_to_cloud_run")
            /\ Done => result = ErrSubmit(answers[k].err)
            /\ ~Done => pc = "submit_build"

C3_Witness ==
    /\ cmd = "run" /\ Done /\ result.kind = "CloudBuildError::Submit"
    /\ Issued("build.submit")

\* The lines a deploy run has reported: the report of deploy_pipeline::run,
\* the terminal of the CLI.
Reported == IF cmd = "run" THEN Range(steps) ELSE Range(out)

\* C4: a failure of list_secrets does not abort the deploy: a warning line is
\* reported, the discovered secrets are empty, and deploy_to_cloud_run is
\* issued without an --update-secrets mapping.
C4_SecretListingNonFatal ==
    \A k \in DOMAIN log :
        (cmd \in DeployCmds /\ log[k].op = "secrets.list" /\ Answered(k) /\ ~answers[k].ok
           /\ pc # "list_secrets") =>
            /\ <<"Warning: could not list secrets: ", "failed to list secrets">> \in Reported
            /\ loc.secrets = <<>>
            /\ k < Len(log) /\ log[k + 1].op = "run.deploy"
            /\ Lit("--update-secrets") \notin Range(log[k + 1].args)
            /\ result.kind \in {NONE, "Ok", "DeployError::Deploy"}
            /\ (Done /\ answers[k + 1].ok) => result.ok

C4_Witness ==
    /\ cmd = "run" /\ Done /\ result.ok
    /\ \E k \in DOMAIN log : log[k].op = "secrets.list" /\ ~answers[k].ok
    /\ cloud.secrets # {}

\* The APIs whose readiness probe has answered "not enabled".
ProbedDisabled ==
    {ApiOf(log[k]) : k \in {j \in DOMAIN log :
        log[j].op = "services.list" /\ Answered(j) /\ ~ApiEnabled(answers[j])}}

PreflightFailed ==
    \E k \in DOMAIN log :
        /\ log[k].op \in {"version", "auth", "project.describe"}
        /\ Answered(k) /\ ~answers[k].ok

InPreflight == pc \in {"pf_version", "pf_auth", "pf_project", "pf_api"}

\* The abort names the API: in the error of deploy_pipeline::run, in the list
\* the CLI prints before it fails.
Listed(api) ==
    IF cmd = "run" THEN api \in result.text /\ api \in Range(result.apis)
    ELSE <<"  - ", api>> \in Range(out)

\* C5: if check_prerequisites returns a preflight error or reports a disabled
\* required API, the deploy aborts, the abort lists every disabled API, and
\* ensure_artifact_repo, bundling, submit_build and deploy_to_cloud_run are
\* not performed.
C5_ReadinessGate ==
    (cmd \in DeployCmds /\ ~InPreflight /\ (PreflightFailed \/ ProbedDisabled # {})) =>
        /\ Done /\ ~result.ok
        /\ PreflightFailed => result.kind \in {"PreflightError::GcloudNotInstalled",
                                               "PreflightError::NotAuthenticated",
                                               "PreflightError::ProjectNotAccessible"}
        /\ ~PreflightFailed =>
              /\ result.kind = "ApisDisabled"
              /\ \A api \in ProbedDisabled : Listed(api)
              /\ \A api \in Range(PreflightApis) \ cloud.apis : Listed(api)
        /\ ~Started("ensure_artifact_repo") /\ ~Started("create_bundle")
        /\ ~Started("submit_build") /\ ~Started("deploy_to_cloud_run")
        /\ \A k \in DOMAIN log :
              log[k].op \notin {"repo.describe", "repo.create", "build.submit", "run.deploy"}

C5_Witness ==
    /\ cmd = "run" /\ Done /\ result.kind = "ApisDisabled"
    /\ Len(result.apis) = 2

\* C8: when the create call of ensure_artifact_repo fails with an error saying
\* the repository already exists, ensure_artifact_repo is a successful no-op:
\* the deploy does not abort on it and goes on to obtain the recipe.
C8_RepoAlreadyExistsIsNoOp ==
    \A k \in DOMAIN log :
        (cmd \in DeployCmds /\ log[k].op = "repo.create" /\ Answered(k)
           /\ answers[k].err = "ALREADY_EXISTS" /\ pc # "repo_create") =>
            /\ result # ErrDeploy("ALREADY_EXISTS")
            /\ Started("render") \/ Started("load_ejected_dockerfile")

\* The positions in the log of the calls of operation o.
Calls(o) == {k \in DOMAIN log : log[k].op = o}

\* C9: set_secret first probes the secret with describe; it issues create only
\* if the probe failed, and none if the probe succeeded; it then issues exactly
\* one `versions add` with the value on stdin; if the create fails it returns
\* SecretError::Create and adds no version.
C9_SetSecretProtocol ==
    (cmd = "secret_set" /\ log # <<>>) =>
        /\ log[1] = CallSecretDescribe(loc.pid, loc.key)
        /\ Calls("secret.describe") = {1}
        /\ Calls("secret.create") \subseteq {2}
        /\ Cardinality(Calls("secret.addversion")) <= 1
        /\ (Answered(1) /\ pc # "ss_describe") =>
              IF answers[1].ok
              THEN Calls("secret.create") = {} /\ Calls("secret.addversion") = {2}
              ELSE log[2] = CallSecretCreate(loc.pid, loc.key)
        /\ \A k \in Calls("secret.create") : (Answered(k) /\ pc # "ss_create") =>
              IF answers[k].ok
              THEN Calls("secret.addversion") = {k + 1}
              ELSE /\ Calls("secret.addversion") = {}
                   /\ Done /\ result = ErrSecretCreate(answers[k].err)
                   /\ Len(log) = k
        /\ \A k \in Calls("secret.addversion") :
              /\ log[k].mode = "stdin" /\ log[k].stdin = loc.value
              /\ log[k].args[Len(log[k].args)] = Lit("-")
        /\ Started("get_project_number") => Cardinality(Calls("secret.addversion")) = 1

C9_Witness ==
    /\ cmd = "secret_set" /\ Done /\ result.ok
    /\ Calls("secret.create") = {2} /\ Calls("secret.addversion") = {3}
    /\ cloud.versions[loc.key[1]] = 1

\* The value occurs in the argument: as the whole of it or as a part of it.
OccursIn(value, arg) ==
    \E i \in DOMAIN arg : i + Len(value) - 1 <= Len(arg)
                          /\ SubSeq(arg, i, i + Len(value) - 1) = value

\* C10: a run of set_secret or of set_gh_secret and a run that differs from it
\* only in the secret value hand identical sequences of argument vectors to the
\* command executor; the value occurs in no argument, and the only payload on
\* stdin is the value.
C10_NoSecretValueInArgs ==
    cmd \in {"secret_set", "set_gh_secret"} =>
        /\ shadow = [k \in DOMAIN log |-> log[k].args]
        /\ \A k \in DOMAIN log :
              /\ \A a \in DOMAIN log[k].args : ~OccursIn(loc.value, log[k].args[a])
              /\ log[k].op \in {"secret.addversion", "gh.secret.set"} =>
                    log[k].mode = "stdin" /\ log[k].stdin = loc.value
              /\ log[k].op \notin {"secret.addversion", "gh.secret.set"} =>
                    log[k].stdin = NoStdin

C10_Witness ==
    /\ cmd = "secret_set" /\ Done /\ result.ok
    /\ loc.twin # loc.value
    /\ \E k \in Calls("secret.addversion") : answers[k].ok /\ log[k].stdin = <<"k", "=", "v">>

\* The create calls of the idempotent ensures of ci_init, each with the call
\* issued before it, the position ci_init awaits it at, the error kind of the resource, the operation
\* that follows the ensure, and the lines ci_init prints for Ok(true) and
\* Ok(false).
EnsureTable ==
    {[op |-> "pool.create", prev |-> "services.list", at |-> "ci_pool", kind |-> "WifError::CreatePool",
      next |-> "ensure_oidc_provider",
      created |-> <<"  Created Identity Pool: ", WIF_POOL_ID>>,
      existed |-> <<"  Identity Pool already exists: ", WIF_POOL_ID>>],
     [op |-> "provider.create", prev |-> "pool.create", at |-> "ci_provider", kind |-> "WifError::CreateProvider",
      next |-> "ensure_service_account",
      created |-> <<"  Created OIDC Provider: ", WIF_PROVIDER_ID>>,
      existed |-> <<"  OIDC Provider already exists: ", WIF_PROVIDER_ID>>],
     [op |-> "sa.create", prev |-> "provider.create", at |-> "ci_sa", kind |-> "WifError::CreateServiceAccount",
      next |-> "bind_iam_roles",
      created |-> <<"  Created SA: ">> \o SaEmail(ProjectId),
      existed |-> <<"  SA already exists: ">> \o SaEmail(ProjectId)]}

\* The failures with which the control plane refuses to create what exists.
AlreadyExistsTexts ==
    {"ALREADY_EXISTS: resource already exists", "ALREADY_EXISTS: provider already exists",
     "Service account already exists"}

\* C7: each of ensure_wif_pool, ensure_oidc_provider and ensure_service_account
\* issues one create call and no probe; it returns Ok(true) when the create
\* succeeds, Ok(false) when the create fails with an already-exists wording, and
\* the typed error of its resource kind for every other failure; so no ensure
\* fails because its resource exists already.
C7_IdempotentEnsure ==
    cmd = "ci_init" =>
        /\ \A e \in EnsureTable : Cardinality(Calls(e.op)) <= 1
        /\ \A e \in EnsureTable : \A k \in Calls(e.op) :
              (Answered(k) /\ pc # e.at) =>
                  IF answers[k].ok
                  THEN e.created \in Range(out) /\ Started(e.next)
                  ELSE IF answers[k].err \in AlreadyExistsTexts
                  THEN /\ e.existed \in Range(out) /\ Started(e.next)
                       /\ Len(log) > k
                  ELSE /\ Done /\ result = Err(e.kind, {answers[k].err})
                       /\ Len(log) = k /\ ~Started(e.next)
        /\ result.text \cap AlreadyExistsTexts = {}
        /\ \A e \in EnsureTable :
              Started(e.next) => \E k \in Calls(e.op) : log[k - 1].op = e.prev

C7_Witness ==
    /\ cmd = "ci_init" /\ Done /\ result.ok
    /\ <<"  Identity Pool already exists: ", WIF_POOL_ID>> \in Range(out)
    /\ <<"  Created OIDC Provider: ", WIF_PROVIDER_ID>> \in Range(out)
    /\ (<<"  SA already exists: ">> \o SaEmail(ProjectId)) \in Range(out)

\* The commands that resolve the target project id.
ProjectCmds ==
    DeployCmds \cup {"destroy", "ci_init", "secret_set", "secret_delete", "secret_list"}

\* propel.toml loads (or is absent) and sets no gcp_project_id.
IdUnset == inp.config = "ok" /\ inp.pid = NONE

\* A deploy is past the dirty gate: the gate did not stop it.
PastDirtyGate ==
    cmd \in DeployCmds => pc # "dirty_gate" /\ (inp.allow_dirty \/ inp.tree = "clean")

\* The positions of the gcloud commands in the log.
GcloudCalls == {k \in DOMAIN log : log[k].tool = "gcloud"}

\* The steps a command takes before it resolves the project id all succeeded.
StepsBeforeIdOk ==
    CASE cmd \in DeployCmds -> PastDirtyGate /\ inp.cargo = "ok"
      [] cmd = "destroy" -> inp.cargo = "ok"
      [] cmd = "ci_init" -> /\ ~inp.workflow
                            /\ Len(log) >= 2 /\ answers[1].ok /\ answers[2].ok
                            /\ parse_github_repo(inp.remote).some
      [] cmd = "secret_set" -> split_once(inp.key_value).ok
      [] OTHER -> TRUE

\* C6 as stated: when gcp_project_id is unset, deploy (past the dirty gate),
\* destroy, ci_init and the secret commands fail with an error naming
\* gcp_project_id, and no gcloud command is issued in that run.
C6_FailsNamingProjectId ==
    (cmd \in ProjectCmds /\ IdUnset /\ Done /\ PastDirtyGate) =>
        /\ ~result.ok
        /\ "gcp_project_id" \in result.text
        /\ GcloudCalls = {}

\* C6, amended: when gcp_project_id is unset, deploy (past the dirty gate),
\* destroy, ci_init and the secret commands fail and no gcloud command is
\* issued in that run; the error names gcp_project_id whenever the steps the
\* command takes before it resolves the id succeeded (Cargo.toml read by deploy
\* and destroy; workflow guard, gh checks and GitHub remote of ci_init; the
\* KEY=VALUE format of secret set).
C6_ProjectIdNotDefaulted ==
    (cmd \in ProjectCmds /\ IdUnset) =>
        /\ GcloudCalls = {}
        /\ loc.pid = NONE
        /\ pc \in {"start", "dirty_gate", "load_config", "ci_gh_version", "ci_gh_auth", "done"}
        /\ Done => ~result.ok
        /\ (Done /\ StepsBeforeIdOk) =>
              /\ result = require_gcp_project_id(NONE).err
              /\ "gcp_project_id" \in result.text

C6_Witness ==
    /\ cmd = "ci_init" /\ IdUnset /\ Done
    /\ result.kind = "MissingProjectId"
    /\ Len(log) = 2 /\ GcloudCalls = {}

\* The position in the log of the only call of operation o, 0 if there is none.
CallAt(o) == IF Calls(o) = {} THEN 0 ELSE CHOOSE k \in Calls(o) : TRUE

\* C11: secret_set runs set_secret (describe, create if absent, versions add),
\* then get_project_number, then grant_secret_access, in that order: the grant
\* is issued only after versions add succeeded, it names the runtime identity
\* <project number>-compute@developer.gserviceaccount.com, and secret_set
\* returns Ok only if the grant succeeded.
C11_SetThenGrant ==
    cmd = "secret_set" =>
        /\ Cardinality(Calls("secret.grant")) <= 1
        /\ \A g \in Calls("secret.grant") :
              /\ g = Len(log) /\ g >= 4
              /\ log[g - 1].op = "project.number" /\ answers[g - 1].ok
              /\ log[g - 2].op = "secret.addversion" /\ answers[g - 2].ok
              /\ log[g - 3].op \in {"secret.describe", "secret.create"}
              /\ log[1].op = "secret.describe"
              /\ log[g] = CallGrantSecretAccess(ProjectId, loc.key,
                              <<answers[g - 1].out[1],
                                "-compute@developer.gserviceaccount.com">>)
        /\ (Done /\ result.ok) =>
              /\ CallAt("secret.grant") # 0
              /\ answers[CallAt("secret.grant")].ok
        /\ \A g \in Calls("secret.grant") :
              (Answered(g) /\ ~answers[g].ok /\ pc # "ss_grant") =>
                  Done /\ result = ErrSecretGrant(answers[g].err)

C11_Witness ==
    /\ cmd = "secret_set" /\ Done /\ result.ok
    /\ Calls("secret.create") = {} /\ CallAt("secret.grant") = 4
    /\ loc.key[1] \in cloud.granted

\* secret_delete went ahead: it was told to skip the prompt or was answered yes.
DeleteConfirmed == inp.skip_confirm \/ Confirmed(inp.answer)

\* C12: secret_delete, once confirmed, issues the revoke of the runtime
\* identity's access before the delete of the secret, and the revoke is
\* best-effort: when it fails a warning is printed and delete_secret is issued
\* all the same; an unconfirmed secret_delete issues no command.
C12_RevokeBestEffort ==
    cmd = "secret_delete" =>
        /\ ~DeleteConfirmed => log = <<>>
        /\ \A d \in Calls("secret.delete") :
              /\ d = 3 /\ log[2].op = "secret.revoke" /\ Answered(2)
              /\ SecretOf(log[2]) = SecretOf(log[d]) /\ SecretOf(log[d]) = inp.key
              /\ log[2] = CallRevokeSecretAccess(ProjectId, Lit(inp.key),
                                                 ComputeSa(answers[1].out[1]))
        /\ \A v \in Calls("secret.revoke") :
              (Answered(v) /\ pc # "sd_revoke") =>
                  /\ Calls("secret.delete") = {v + 1}
                  /\ ~answers[v].ok =>
                        (<<"Warning: could not revoke SA binding for '">> \o Lit(inp.key)
                           \o <<"'">>) \in Range(out)
                  /\ (Done /\ answers[v + 1].ok) => result.ok

C12_Witness ==
    /\ cmd = "secret_delete" /\ Done /\ result.ok /\ ~inp.skip_confirm
    /\ \E v \in Calls("secret.revoke") : ~answers[v].ok
    /\ inp.key \notin cloud.secrets

\* C13: on every path that deletes a secret (secret_delete, destroy with
\* include_secrets) a revoke of the runtime identity's access to that secret
\* is issued before the delete of that secret.  destroy deletes each listed
\* secret without any revoke, so this does not hold of the code.
C13_RevokeBeforeEveryDelete ==
    \A d \in Calls("secret.delete") :
        \E v \in 1..(d - 1) :
            /\ log[v].op = "secret.revoke"
            /\ SecretOf(log[v]) = SecretOf(log[d])

\* The remote deletions a confirmed destroy selects, in the order of destroy.
SelectedDeletions(listing) ==
    <<"service.delete", "image.delete">>
    \o (IF inp.include_secrets THEN [k \in DOMAIN listing |-> "secret.delete"] ELSE <<>>)
    \o (IF inp.include_ci
        THEN <<"pool.delete", "sa.delete">>
             \o [k \in DOMAIN GH_SECRET_NAMES |-> "gh.secret.delete"]
        ELSE <<>>)

\* A line of output that reports a deletion as skipped.
IsSkipped(line) ==
    /\ Len(line) >= 4
    /\ line[1] \in {"  Skipped", "  Skipped ", "  Skipped WIF Pool",
                    "  Skipped Service Account", "  Skipped GitHub Secret "}
    /\ line[Len(line)] = ")"

\* The deletions of the run that failed.
FailedDeletions == {k \in 2..Len(log) : Answered(k) /\ ~answers[k].ok}

FollowUpSecrets == Lit("  To delete them: propel destroy --include-secrets")
FollowUpCi == Lit("  To delete them: propel destroy --include-ci")

\* C15: whenever a resource covered by destroy remains after a confirmed run,
\* because it was not selected or because its deletion failed, the final
\* output names it with the follow-up command that removes it: secrets with
\* --include-secrets, the CI resources with --include-ci, the service and the
\* image with some follow-up command.  The closing notes are printed only
\* for a category that was not selected, so this does not hold of the code.
C15_RemainderSummarized ==
    (cmd = "destroy" /\ Done /\ DeleteConfirmed /\ log # <<>>) =>
        /\ cloud.secrets # {} => FollowUpSecrets \in Range(out)
        /\ (cloud.pool \/ cloud.sa) => FollowUpCi \in Range(out)
        /\ (cloud.service \/ cloud.image) =>
              (FollowUpSecrets \in Range(out) \/ FollowUpCi \in Range(out))

\* The role a binding call binds: the value of --role.
RoleOf(call) == call.args[7][1]

\* C16: bind_iam_roles issues one binding per role, in the order of the list
\* and each only after the one before it succeeded; it has succeeded only when
\* every role of the list is bound; when a binding fails no further role is
\* bound and the error is WifError::BindRole naming that role and no other,
\* the roles before it being bound.
C16_BindRolesInOrder ==
    cmd = "ci_init" =>
        LET B == Calls("role.bind") IN
        /\ \A k \in B :
              LET n == Cardinality({j \in B : j <= k}) IN
              /\ n <= Len(CI_SA_ROLES)
              /\ log[k] = CallBindRole(ProjectId, SaEmail(ProjectId), CI_SA_ROLES[n])
              /\ n > 1 => log[k - 1].op = "role.bind"
              /\ \A j \in B : j < k =>
                    /\ Answered(j) /\ answers[j].ok
                    /\ RoleOf(log[j]) \in cloud.roles
        /\ Started("get_project_number") =>
              /\ Cardinality(B) = Len(CI_SA_ROLES)
              /\ \A k \in B : answers[k].ok
              /\ Range(CI_SA_ROLES) \subseteq cloud.roles
        /\ \A k \in B :
              (Answered(k) /\ ~answers[k].ok /\ pc # "ci_roles") =>
                  /\ Done /\ k = Len(log)
                  /\ result = ErrBindRole(RoleOf(log[k]), answers[k].err)
                  /\ result.text \cap Range(CI_SA_ROLES) = {RoleOf(log[k])}

C16_Witness ==
    /\ cmd = "ci_init" /\ Done /\ result.kind = "WifError::BindRole"
    /\ Cardinality(Calls("role.bind")) = 3
    /\ CI_SA_ROLES[3] \in result.text
    /\ {CI_SA_ROLES[1], CI_SA_ROLES[2]} \subseteq cloud.roles
    /\ CI_SA_ROLES[3] \notin cloud.roles

\* A check of the report has been recorded: it is not the default entry.
Recorded(c) == c # CheckResult_default

\* C17: doctor never returns early: whatever the outcomes of the checks,
\* without a project id and with an inaccessible project too, the report of a
\* finished doctor holds a recorded result for gcloud, account, project and
\* billing and one entry for each required API.  doctor returns right after
\* the project check when there is no project id or the project is not
\* accessible, so this does not hold of the code.
C17_FullReport ==
    (cmd = "doctor" /\ Done) =>
        /\ Recorded(loc.report.gcloud)
        /\ Recorded(loc.report.account)
        /\ Recorded(loc.report.project)
        /\ Recorded(loc.report.billing)
        /\ Len(loc.report.apis) = Len(DoctorApis)

\* The API probes of doctor whose answer says "enabled", and the entries of the
\* report that failed, both by position in the list of required APIs.
ProbedEnabled ==
    {n \in DOMAIN DoctorApis :
        /\ 4 + n \in DOMAIN log /\ Answered(4 + n)
        /\ answers[4 + n].ok /\ answers[4 + n].out # <<>>}
FailingApis ==
    {n \in DOMAIN loc.report.apis : ~loc.report.apis[n].result.passed}

\* C18: when the gcloud, account, project and billing checks of a finished
\* doctor passed, the report holds the four required APIs in order, an entry
\* fails exactly when its probe did not answer "enabled" (so with one API
\* disabled exactly that entry fails and the other three pass), an API that is
\* not enabled in the project never passes, and a failing entry makes
\* all_passed() false and the command fail; all_passed() is true only when the
\* four checks, the four API probes and the config-file check all passed.
C18_ExactlyTheDisabledApi ==
    (cmd = "doctor" /\ Done) =>
        LET report == loc.report IN
        /\ (/\ report.gcloud.passed /\ report.account.passed
            /\ report.project.passed /\ report.billing.passed) =>
              /\ [n \in DOMAIN report.apis |-> report.apis[n].name] = DoctorApiLabels
              /\ \A n \in DOMAIN DoctorApis : ApiOf(log[4 + n]) = DoctorApis[n]
              /\ FailingApis = DOMAIN DoctorApis \ ProbedEnabled
              /\ \A n \in DOMAIN DoctorApis : DoctorApis[n] \notin cloud.apis => n \in FailingApis
              /\ FailingApis # {} => ~all_passed(report)
        /\ result.ok <=> all_passed(report)
        /\ all_passed(report) =>
              /\ Len(log) = 4 + Len(DoctorApis)
              /\ answers[1].ok
              /\ answers[2].ok /\ answers[2].out # <<>>
              /\ answers[3].ok
              /\ answers[4].ok /\ answers[4].out = <<"True">>
              /\ ProbedEnabled = DOMAIN DoctorApis
              /\ inp.config = "ok"

C18_Witness ==
    /\ cmd = "doctor" /\ Done /\ ~result.ok
    /\ loc.report.gcloud.passed /\ loc.report.account.passed
    /\ loc.report.project.passed /\ loc.report.billing.passed
    /\ loc.report.config_file.passed
    /\ cloud.apis = AllApis \ {"run.googleapis.com"}
    /\ FailingApis = {2}
    /\ loc.report.apis[2].name = "Cloud Run"

\* The calls of eject since .propel/Dockerfile was last removed, and those of
\* them that succeeded.
LastRemoval ==
    IF Calls("fs.remove") = {} THEN 0
    ELSE CHOOSE k \in Calls("fs.remove") : \A j \in Calls("fs.remove") : j <= k
EjectsSince == {k \in Calls("fs.eject") : k > LastRemoval}
Ejected == {k \in EjectsSince : answers[k].ok}

\* C19: eject refuses to overwrite: an eject that finds .propel/Dockerfile
\* returns AlreadyEjected (unless it already failed on the directory) and
\* leaves the file as it is, so at most one eject succeeds until the file is
\* removed, the file holds the content that eject was given, and every eject
\* after it fails; without a file no eject returns AlreadyEjected.
C19_EjectRefusesOverwrite ==
    cmd = "eject" =>
        /\ Cardinality(Ejected) <= 1
        /\ \A k \in Ejected :
              /\ fs.ejected = File(log[k].args[1])
              /\ \A j \in EjectsSince : j < k => answers[j].err # "EjectError::AlreadyEjected"
              /\ \A j \in EjectsSince : j > k =>
                    answers[j].err \in {"EjectError::AlreadyEjected", "EjectError::CreateDir"}
        /\ ~fs.ejected.exists =>
              \A j \in EjectsSince : ~answers[j].ok /\ answers[j].err # "EjectError::AlreadyEjected"

C19_Witness ==
    /\ cmd = "eject" /\ Len(log) = 4
    /\ log[1] = FsCall("fs.eject", <<HandRecipe>>) /\ answers[1].ok
    /\ log[2] = FsCall("fs.eject", <<EditedRecipe>>)
    /\ answers[2].err = "EjectError::AlreadyEjected"
    /\ log[3].op = "fs.load" /\ answers[3].out = HandRecipe
    /\ log[4].op = "fs.remove"
    /\ ~fs.ejected.exists

\* The successful ejects that a call at position k finds in effect: those
\* before k and after the last removal before k.
InEffectAt(k) ==
    {j \in Calls("fs.eject") :
        /\ j < k /\ answers[j].ok
        /\ \A r \in Calls("fs.remove") : r < j \/ r > k}

\* C20: deploy uses an ejected recipe verbatim: once the bundle is composed,
\* if .propel/Dockerfile exists the bundle's Dockerfile is that file's content
\* piece for piece, the recipe was loaded and the generator was not run; if it
\* does not exist the bundle's Dockerfile is the rendered recipe.  Deploy
\* leaves .propel/Dockerfile as it found it and writes no bundle Dockerfile
\* before that step.  load_ejected_dockerfile after a successful eject(c)
\* returns c.
C20_EjectedRecipeVerbatim ==
    /\ cmd \in DeployCmds =>
          /\ fs.ejected = inp.ejected
          /\ ~Started("create_bundle") => fs.bundle = NoFile
          /\ Started("submit_build") =>
                IF fs.ejected.exists
                THEN /\ fs.bundle = File(fs.ejected.content)
                     /\ Started("load_ejected_dockerfile") /\ ~Started("render")
                ELSE /\ fs.bundle = File(RenderedRecipe)
                     /\ Started("render") /\ ~Started("load_ejected_dockerfile")
    /\ cmd = "eject" =>
          \A k \in Calls("fs.load") : \A j \in InEffectAt(k) :
              answers[k] = Ok(log[j].args[1])

C20_Witness ==
    /\ cmd = "run" /\ Done /\ result.ok
    /\ fs.ejected = File(EditedRecipe)
    /\ fs.bundle = File(EditedRecipe)
    /\ fs.bundle # File(RenderedRecipe)
    /\ <<"Using ejected Dockerfile">> \in Range(steps)

\* The create_bundle calls of a session, and the last of them.
Bundlings == Calls("fs.bundle")
LastBundling == IF Bundlings = {} THEN 0 ELSE Len(log)

\* The paths git lists in the working tree: the tracked paths and the
\* untracked paths that exist and are not ignored.
GitListed ==
    {p \in Range(PathOrder) : p \in fs.index \/ (FileAt(fs, p).exists /\ p \notin Ignored)}
Internal == {p \in Range(PathOrder) : p[1] \in {".propel-bundle", ".propel", ".git"}}

\* C21: create_bundle deletes and recreates the staging directory on every
\* call: after a call that did not fail on removing the old directory, every
\* file of the bundle was copied by this call, and after a call that returned
\* Ok the Dockerfile of the bundle is the one this call wrote, whatever calls
\* and edits of the project came before.
C21_NoLeftover ==
    (cmd = "bundle" /\ LastBundling > 0) =>
        LET k == LastBundling IN
        /\ answers[k].err # "BundleError::Cleanup" =>
              \A e \in fs.staged : e.by = k
        /\ answers[k].ok => fs.bundle = File(log[k].args[1])
        /\ answers[k].err = "BundleError::Cleanup" => BundleExists(fs)

\* An old bundle was there, the project was bundled, a file was changed and
\* another deleted, and the project was bundled again with another recipe.
C21_Witness ==
    /\ cmd = "bundle" /\ Len(log) = 2
    /\ inp.staged # {}
    /\ answers[1].ok /\ answers[2].ok
    /\ log[1].args[1] # log[2].args[1]
    /\ ~fs.tree[NotesPath].exists
    /\ [path |-> MainPath, content |-> V2, by |-> 2] \in fs.staged

\* C22: after create_bundle returned Ok, the files of the bundle are exactly
\* the paths git lists (tracked, or untracked and not ignored) whose first
\* component is none of .propel-bundle, .propel, .git, each with its content,
\* plus a root Dockerfile that holds the supplied recipe, also when the
\* project has a root Dockerfile of its own.
C22_BundleFileSet ==
    (cmd = "bundle" /\ LastBundling > 0 /\ ops[Len(ops)] = "create_bundle"
        /\ answers[LastBundling].ok) =>
        /\ {e.path : e \in fs.staged} = (GitListed \ Internal) \ {DockerfilePath}
        /\ \A e \in fs.staged : File(e.content) = FileAt(fs, e.path)
        /\ \A e, x \in fs.staged : e.path = x.path => e = x
        /\ fs.bundle = File(log[LastBundling].args[1])

\* The project has an ejected recipe under .propel, a build output that is
\* ignored, a .gitignore and a root Dockerfile of its own.
C22_Witness ==
    /\ cmd = "bundle" /\ LastBundling > 0 /\ ops[Len(ops)] = "create_bundle"
    /\ answers[LastBundling].ok
    /\ fs.ejected.exists /\ fs.tree[TargetPath].exists
    /\ fs.tree[DockerfilePath] = File(V1)
    /\ fs.bundle = File(HandRecipe)
    /\ GitIgnorePath \in {e.path : e \in fs.staged}
    /\ StalePath \in fs.index

\* The recipe a render run produced, and the configuration it was given.
Rendered == cmd = "render" /\ Done
Recipe == loc.dockerfile
LineOf(recipe, line) == CHOOSE i \in DOMAIN recipe : recipe[i] = line
StageLines(recipe, from, to) == {i \in DOMAIN recipe : from < i /\ i < to}
IsInstall(line) == line[1] = "RUN apt-get update && apt-get install -y "
InstallLines(recipe) == {i \in DOMAIN recipe : IsInstall(recipe[i])}
NamesAll(line, packages) ==
    /\ Len(line) = 2 * Len(packages) + 1
    /\ \A k \in DOMAIN packages : line[2 * k] = packages[k]

\* C23 as stated: an empty package list gives no install instruction, a
\* non-empty one exactly one install instruction that names every package.
C23_OneInstall ==
    Rendered =>
        IF inp.build.extra_packages = <<>> THEN InstallLines(Recipe) = {}
        ELSE /\ Cardinality(InstallLines(Recipe)) = 1
             /\ \A i \in InstallLines(Recipe) : NamesAll(Recipe[i], inp.build.extra_packages)

\* C23, amended: an empty package list gives no install instruction; a
\* non-empty one gives exactly two, the first line of the cacher stage and
\* the first line of the builder stage, and each names every package of the
\* list in order.
C23_OneInstallPerBuildStage ==
    Rendered =>
        LET cacher == LineOf(Recipe, <<"FROM chef AS cacher">>)
            builder == LineOf(Recipe, <<"FROM chef AS builder">>)
        IN  IF inp.build.extra_packages = <<>> THEN InstallLines(Recipe) = {}
            ELSE /\ InstallLines(Recipe) = {cacher + 1, builder + 1}
                 /\ cacher + 1 < builder
                 /\ \A i \in InstallLines(Recipe) :
                       NamesAll(Recipe[i], inp.build.extra_packages)

\* A recipe was rendered for two extra packages.
C23_Witness ==
    /\ Rendered
    /\ inp.build.extra_packages = <<"libssl-dev", "pkg-config">>
    /\ Cardinality(InstallLines(Recipe)) = 2

\* The runtime stage of a recipe and its copy instructions other than the
\* copy of the binary.
RuntimeStage(recipe) == SubSeq(recipe, LineOf(recipe, Stage4) + 1, Len(recipe))
IsBlanket(line) == line = <<"COPY . .">>
IsCopy(line) == line[1] = "COPY " \/ IsBlanket(line)
RuntimeCopies(recipe) == SelectSeq(RuntimeStage(recipe), IsCopy)

\* C24: the copies of the runtime stage follow include: None gives exactly
\* one blanket copy, Some of no path gives no copy but the one of the binary,
\* Some(paths) gives one copy per listed path, in the order of the list, and
\* no blanket copy.
C24_CopiesFollowInclude ==
    Rendered =>
        LET copies == RuntimeCopies(Recipe)
            include == inp.build.include
        IN  /\ Cardinality({i \in DOMAIN RuntimeStage(Recipe) :
                    RuntimeStage(Recipe)[i][1] = "COPY --from=builder /app/target/release/"}) = 1
            /\ IF ~include.some THEN copies = << <<"COPY . .">> >>
               ELSE /\ Len(copies) = Len(include.paths)
                    /\ \A i \in DOMAIN copies :
                          /\ ~IsBlanket(copies[i])
                          /\ copies[i][2] = include.paths[i][1]
                          /\ Len(copies[i]) > Len(include.paths[i])
                          /\ \A k \in DOMAIN include.paths[i] :
                                include.paths[i][k] # "/" => copies[i][k + 1] = include.paths[i][k]

\* Two paths are included, a file and a directory, in this order.
C24_Witness ==
    /\ Rendered
    /\ inp.build.include = Some(<< <<"seeds.txt">>, <<"migrations", "/">> >>)
    /\ Len(RuntimeCopies(Recipe)) = 2
    /\ RuntimeCopies(Recipe)[2][2] = "migrations"

\* C25: an included path is copied under its own name, `COPY p ./p`: a
\* directory (p ends with the separator) as COPY dir/ ./dir/, a file as
\* COPY file ./file with no separator added.
C25_FilesCopiedAsFiles ==
    (Rendered /\ inp.build.include.some) =>
        \A i \in DOMAIN inp.build.include.paths :
            LET p == inp.build.include.paths[i] IN
            /\ i \in DOMAIN RuntimeCopies(Recipe)
            /\ RuntimeCopies(Recipe)[i] = <<"COPY ">> \o p \o <<" ./">> \o p

\* The ENV directives of a recipe.
IsEnv(line) == line[1] = "ENV "
EnvLines(recipe) == SelectSeq(recipe, IsEnv)

\* C26: the ENV directives are in ascending key order, one per entry of the
\* map, whatever order the map yields its entries in: configurations with the
\* same entries render the same recipe; an empty map renders no ENV.
C26_EnvSorted ==
    Rendered =>
        LET env == inp.build.env
            lines == EnvLines(Recipe)
        IN  /\ Len(lines) = Len(env)
            /\ \A i \in DOMAIN env :
                  \E k \in DOMAIN lines : lines[k] = <<"ENV ", env[i][1], "=", env[i][2]>>
            /\ \A k \in DOMAIN lines : k > 1 => key_lt(lines[k - 1][2], lines[k][2])
            /\ \A e \in EnvMaps :
                  Range(e) = Range(env) =>
                      render([inp.build EXCEPT !.env = e], [binary_name |-> ServiceName], "8080")
                          = Recipe

\* The map yields TEMPLATE_DIR before LUA_DIR.
C26_Witness ==
    /\ Rendered
    /\ inp.build.env = << <<"TEMPLATE_DIR", "production">>, <<"LUA_DIR", "/app/lua">> >>
    /\ EnvLines(Recipe)
          = << <<"ENV ", "LUA_DIR", "=", "/app/lua">>, <<"ENV ", "TEMPLATE_DIR", "=", "production">> >>

\* The binaries of the package and what makes the choice among them
\* ambiguous: several targets, no default-run among them, none named like
\* the package.
Binaries == {inp.manifest.bins[i] : i \in DOMAIN inp.manifest.bins} \ {NONE}
Explicit == inp.manifest.default_run # NONE /\ inp.manifest.default_run \in Binaries
Ambiguous ==
    /\ Len(inp.manifest.bins) > 1
    /\ ~Explicit
    /\ inp.manifest.name \notin Binaries

\* C27: resolve_default_binary never guesses: a name it returns is one of
\* the given binaries, a default-run that names a binary is selected, no
\* binary at all is an error, and an ambiguous choice is the
\* MultipleBinaries error.
C27_NeverGuesses ==
    (cmd = "discover" /\ Done) =>
        /\ result.ok => loc.binary \in Binaries
        /\ Explicit => result.ok /\ loc.binary = inp.manifest.default_run
        /\ inp.manifest.bins = <<>> => ~result.ok /\ result.kind = "Error::NoBinaryTarget"
        /\ Ambiguous => ~result.ok /\ result.kind = "Error::MultipleBinaries"
        /\ ~result.ok => loc.binary = NONE

\* Two binaries, a default-run that names none of them, and a package with
\* another name.
C27_Witness ==
    /\ cmd = "discover" /\ Done
    /\ inp.manifest = [name |-> ServiceName, bins |-> <<"worker", "cli">>,
                        default_run |-> ServiceName]
    /\ result.kind = "Error::MultipleBinaries"

\* C28: the identity the deploy pipeline loads obeys the same invariant: an
\* ambiguous manifest is an error, and a binary name that is returned for a
\* manifest that declares binaries is one of them.
C28_MetaNeverGuesses ==
    (cmd = "meta" /\ Done) =>
        /\ Ambiguous => ~result.ok
        /\ (result.ok /\ Binaries # {}) => loc.binary \in Binaries

\* The resolutions of a session: started, stored.
Positions(o) == {k \in DOMAIN ops : ops[k] = o}
Resolving == {i \in Invocations : loc.tool[i].pc = "resolving"}
ReturnedOk == {i \in Invocations : loc.tool[i].pc = "returned" /\ loc.tool[i].ret.ok}

\* C29: within one server session the project path is computed at most
\* once: no two invocations run the resolution at the same time, no
\* resolution starts after a value was stored, at most one value is stored,
\* and every invocation that returns a path returns the stored one.
C29_ResolvedOnce ==
    cmd = "mcp" =>
        /\ Cardinality(Resolving) <= 1
        /\ \A k \in Positions("store") : \A j \in Positions("resolve") : j < k
        /\ Cardinality(Positions("store")) <= 1
        /\ loc.resolved_path # NONE => Resolving = {}
        /\ \A i \in ReturnedOk :
              loc.resolved_path # NONE /\ loc.tool[i].ret.out = loc.resolved_path

\* Three invocations ran concurrently without -p: the first resolution failed,
\* the second stored the root, the third returned the stored path.
C29_Witness ==
    /\ cmd = "mcp" /\ inp.cli_path = NONE
    /\ Cardinality(Positions("resolve")) = 2
    /\ Cardinality(Positions("fail")) = 1
    /\ Cardinality(ReturnedOk) = 2
    /\ loc.resolved_path = <<"/work/b">>

\* The secrets a deploy run discovered: the listing, or none when the
\* listing failed.
Discovered ==
    LET l == CallAt("secrets.list") IN
    IF l # 0 /\ Answered(l) /\ answers[l].ok THEN answers[l].out ELSE <<>>

\* C30: deploy_to_cloud_run maps every discovered secret, in list order, as
\* NAME=NAME:latest, joins the entries with commas and passes them as the
\* argument after --update-secrets, the last of the command; with no
\* discovered secret the command has no --update-secrets.
C30_SecretMapping ==
    cmd \in DeployCmds =>
        \A k \in Calls("run.deploy") :
            LET args == log[k].args
                n == Len(Discovered)
                flags == {a \in DOMAIN args : args[a] = <<"--update-secrets">>}
            IN  IF n = 0 THEN flags = {}
                ELSE /\ flags = {Len(args) - 1}
                     /\ Len(args[Len(args)]) = 5 * n - 1
                     /\ \A i \in 1..n :
                           LET at == 5 * (i - 1) IN
                           /\ args[Len(args)][at + 1] = Discovered[i]
                           /\ args[Len(args)][at + 2] = "="
                           /\ args[Len(args)][at + 3] = Discovered[i]
                           /\ args[Len(args)][at + 4] = ":latest"
                           /\ i < n => args[Len(args)][at + 5] = ","

\* Two secrets were listed and the service was deployed with both.
C30_Witness ==
    /\ cmd \in DeployCmds /\ Done /\ result.ok
    /\ Discovered = <<SecretNamePool[1], SecretNamePool[2]>>
    /\ \E k \in Calls("run.deploy") :
          log[k].args[Len(log[k].args)]
              = <<"DB_URL", "=", "DB_URL", ":latest", ",", "API_KEY", "=", "API_KEY", ":latest">>

\* The pipelines, and the failures a pipeline goes on after: a probe whose
\* failure means absence, a listing whose failure is a warning, a best-effort
\* deletion, an ensure answered "already exists".
Pipelines == {"run", "deploy", "secret_set", "secret_delete", "ci_init", "destroy"}
Tolerated(k) ==
    \/ log[k].op \in {"services.list", "repo.describe", "secrets.list", "secret.describe",
                       "secret.revoke"}
    \/ cmd = "destroy"
          /\ log[k].op \in {"service.delete", "image.delete", "secret.delete", "pool.delete",
                             "sa.delete", "gh.secret.delete"}
    \/ log[k].op \in {"pool.create", "provider.create", "sa.create"}
          /\ is_already_exists(answers[k].err)
FatalFailures == {k \in DOMAIN log : Answered(k) /\ ~answers[k].ok /\ ~Tolerated(k)}

\* C31: no retries: within one run of a pipeline no command is issued twice,
\* failed or not, and the failure of a fatal step is the last command of the
\* run, which ends with an error.
C31_NoRetries ==
    cmd \in Pipelines =>
        /\ \A k, j \in DOMAIN log : k < j => log[k] # log[j]
        /\ \A k \in FatalFailures :
              /\ k = Len(log)
              /\ ~result.ok
              /\ Done => result # Running

\* The build failed and the run ended with the build error after one
\* submission.
C31_Witness ==
    /\ cmd = "run" /\ Done
    /\ FatalFailures = {Len(log)}
    /\ log[Len(log)].op = "build.submit"
    /\ result.kind = "CloudBuildError::Submit"
    /\ Cardinality(Calls("build.submit")) = 1

\* The calls of check_prerequisites in a deploy run, and the required APIs
\* whose listing came back empty or failed.
FailedAt(o) == \E k \in Calls(o) : Answered(k) /\ ~answers[k].ok
PassedAt(o) == \E k \in Calls(o) : Answered(k) /\ answers[k].ok
NotListed(api) ==
    \E k \in Calls("services.list") :
        /\ log[k].args[6] = <<"config.name=", api>>
        /\ Answered(k)
        /\ (~answers[k].ok \/ answers[k].out = <<>>)

\* C32: check_prerequisites fails fast in the order tooling, authentication,
\* project: a failing check is the last command and gives its error, the
\* project one with the project id; once the three passed, every required API
\* is listed once, in order, whatever the listings answer, and the report's
\* disabled_apis are exactly the required APIs whose listing came back empty
\* or failed, in the order of the required APIs.
C32_FailFastThenReport ==
    cmd \in DeployCmds =>
        /\ FailedAt("version") =>
              /\ LogOps = <<"version">>
              /\ Done => result = ErrPreflight("GcloudNotInstalled", loc.pid)
        /\ FailedAt("auth") =>
              /\ LogOps = <<"version", "auth">> /\ PassedAt("version")
              /\ Done => result = ErrPreflight("NotAuthenticated", loc.pid)
        /\ FailedAt("project.describe") =>
              /\ LogOps = <<"version", "auth", "project.describe">>
              /\ PassedAt("version") /\ PassedAt("auth")
              /\ Done => /\ result.kind = "PreflightError::ProjectNotAccessible"
                         /\ inp.pid \in result.text
        /\ (PassedAt("project.describe") /\ ~InPreflight) =>
              /\ PassedAt("version") /\ PassedAt("auth")
              /\ SubSeq(LogOps, 1, 6)
                    = <<"version", "auth", "project.describe", "services.list",
                        "services.list", "services.list">>
              /\ \A i \in DOMAIN PreflightApis :
                    log[3 + i].args[6] = <<"config.name=", PreflightApis[i]>>
              /\ loc.disabled = SelectSeq(PreflightApis, NotListed)
              /\ result.kind \notin {"PreflightError::GcloudNotInstalled",
                                      "PreflightError::NotAuthenticated",
                                      "PreflightError::ProjectNotAccessible"}

\* The listing of the first API failed, the second came back empty, the third
\* named the API: the report lists the first two.
C32_Witness ==
    /\ cmd = "run" /\ Done
    /\ Len(log) = 6
    /\ ~answers[4].ok
    /\ answers[5] = Ok(<<>>)
    /\ answers[6] = Ok(<<PreflightApis[3]>>)
    /\ loc.disabled = <<PreflightApis[1], PreflightApis[2]>>

\* The place of a status line in the pipeline: pre-flight, registry, ejected
\* recipe, bundle, build, secrets warning, secrets, deployed.
StepRank(line) ==
    CASE line = <<"Pre-flight checks passed">> -> 1
      [] line = <<"Artifact Registry repository ensured">> -> 2
      [] line = <<"Using ejected Dockerfile">> -> 3
      [] line = <<"Source bundled">> -> 4
      [] line = <<"Cloud Build completed">> -> 5
      [] line[1] = "Warning: could not list secrets: " -> 6
      [] line = <<"No secrets found in Secret Manager">> -> 7
      [] Len(line) = 2 /\ line[2] = " secret(s) will be injected" -> 7
      [] line[1] = "Deployed: " -> 8
      [] OTHER -> 0
HasStep(r) == \E i \in DOMAIN steps : StepRank(steps[i]) = r
EveryApiListed ==
    \A k \in Calls("services.list") : Answered(k) /\ answers[k].ok /\ answers[k].out # <<>>

\* C33: the report of deploy_pipeline::run never claims a step that did not
\* complete: 'Cloud Build completed' only after submit_build succeeded,
\* 'Deployed: <url>' only after deploy_to_cloud_run succeeded, with the URL
\* it returned; an outcome is returned only when every fatal step succeeded;
\* and the lines are in pipeline order, each at most once.
C33_ReportClaimsOnlyCompleted ==
    cmd = "run" =>
        /\ \A i \in DOMAIN steps : StepRank(steps[i]) > 0
        /\ \A i, j \in DOMAIN steps : i < j => StepRank(steps[i]) < StepRank(steps[j])
        /\ HasStep(1) => PassedAt("project.describe") /\ EveryApiListed
        /\ HasStep(2) => PassedAt("repo.describe") \/ PassedAt("repo.create")
        /\ HasStep(4) => fs.bundle.exists
        /\ HasStep(5) => PassedAt("build.submit")
        /\ HasStep(8) =>
              /\ PassedAt("run.deploy")
              /\ steps[Len(steps)] = <<"Deployed: ", answers[CallAt("run.deploy")].out[1]>>
              /\ Done /\ result.ok
        /\ (Done /\ result.ok) =>
              /\ \A r \in {1, 2, 4, 5, 7, 8} : HasStep(r)
              /\ PassedAt("version") /\ PassedAt("auth")
              /\ \A k \in DOMAIN log :
                    ~answers[k].ok => log[k].op \in {"repo.describe", "secrets.list"}

\* The build succeeded and the deploy failed: the report holds the build line
\* and no Deployed line, and no outcome is returned.
C33_Witness ==
    /\ cmd = "run" /\ Done /\ ~result.ok
    /\ HasStep(5) /\ ~HasStep(8)
    /\ FailedAt("run.deploy")

\* The last two steps of the session were deploys without the override, and
\* the first of them passed the dirty gate and left its bundle.
NoOverride(k) == log[k].args[1] = <<>>
DeployedTwice ==
    /\ cmd = "redeploy"
    /\ Len(log) >= 2 /\ Len(ops) >= 2
    /\ ops[Len(ops) - 1] = "deploy" /\ ops[Len(ops)] = "deploy"
    /\ NoOverride(Len(log) - 1) /\ NoOverride(Len(log))
    /\ answers[Len(log) - 1].ok

\* C34: deploy is re-runnable from a clean tree: after a deploy that passed
\* the dirty gate without the override, the bundle it left does not make the
\* next deploy fail the gate.
C34_RerunnableFromClean ==
    DeployedTwice => answers[Len(log)].err # "uncommitted changes detected"

\* The positions in the log of the calls of an operation that succeeded.
Succeeded(o) == {k \in DOMAIN log : log[k].op = o /\ Answered(k) /\ answers[k].ok}

\* The ensure_* create at the head of the log succeeded or found its resource.
Ensuring(o) ==
    \E k \in DOMAIN log :
        /\ log[k].op = o /\ Answered(k)
        /\ answers[k].ok \/ is_already_exists(answers[k].err)

\* Everything ci_init provisions before it writes the workflow file.
Provisioned ==
    /\ Ensuring("pool.create") /\ Ensuring("provider.create") /\ Ensuring("sa.create")
    /\ Cardinality(Succeeded("role.bind")) = Len(CI_SA_ROLES)
    /\ Succeeded("wif.bind") # {}
    /\ \A n \in DOMAIN GH_SECRET_NAMES :
          \E k \in Succeeded("gh.secret.set") : log[k].args[3] = Lit(GH_SECRET_NAMES[n])

\* The workflow file exists: it was there at the start or this run wrote it.
WorkflowWritten == \E k \in DOMAIN ops : ops[k] = "write_workflow"

DeploymentDeletions == {"service.delete", "image.delete"}
SecretDeletions == {"secret.delete"}
CiDeletions == {"pool.delete", "sa.delete", "gh.secret.delete"}
LocalDeletions == {"remove_bundle", "remove_workflow"}
Deleting(deletions) == \E k \in DOMAIN log : log[k].op \in deletions
Removed(local) == \E k \in DOMAIN ops : ops[k] = local

\* The destroy run was told to skip the prompt or was answered y, Y, yes or YES.
DestroyConfirmed == inp.skip_confirm \/ inp.answer \in {"y", "Y", "yes", "YES"}

\* C36: destroy issues no deletion, remote or local, unless the run was
\* confirmed; once confirmed, secrets are deleted only with include_secrets and
\* the CI resources (pool, service account, GitHub secrets, workflow file) only
\* with include_ci.
C36_DestroyOnlyWhatWasAsked ==
    cmd = "destroy" =>
        /\ ~DestroyConfirmed =>
              /\ ~Deleting(DeploymentDeletions \cup SecretDeletions \cup CiDeletions)
              /\ \A l \in LocalDeletions : ~Removed(l)
        /\ ~inp.include_secrets => ~Deleting(SecretDeletions)
        /\ ~inp.include_ci => ~Deleting(CiDeletions) /\ ~Removed("remove_workflow")

\* C36 witness: a destroy answered YES with include_ci alone went through: the
\* project had secrets and none was deleted, the CI resources and both local
\* artefacts were.
C36_Witness ==
    /\ cmd = "destroy" /\ Done
    /\ ~inp.skip_confirm /\ inp.answer = "YES"
    /\ ~inp.include_secrets /\ inp.include_ci
    /\ loc.secrets # <<>>
    /\ ~Deleting(SecretDeletions)
    /\ Cardinality({k \in DOMAIN log : log[k].op = "gh.secret.delete"}) = Len(GH_SECRET_NAMES)
    /\ Removed("remove_workflow") /\ Removed("remove_bundle")

\* The deploy passed the readiness gate: check_prerequisites returned a
\* report without a disabled API and ensure_artifact_repo was entered.
PassedReadinessGate == cmd \in DeployCmds /\ Started("ensure_artifact_repo")

\* C37: the readiness gate of deploy covers every API doctor requires: a
\* deploy that passed it finds Cloud Build, Cloud Run, Secret Manager and
\* Artifact Registry enabled when it reaches ensure_artifact_repo.
C37_GateCoversDoctorApis ==
    PassedReadinessGate => \A api \in Range(DoctorApis) : api \in cloud.apis

\* ensure_artifact_repo returned Ok: the pipeline went on to the recipe.
EnsureRepoReturnedOk == Started("render") \/ Started("load_ejected_dockerfile")

\* C38: ensure_artifact_repo is a no-op when the repository is present: a
\* describe probe that succeeds is followed by no create call, leaves the
\* repository as it was and gives success; a probe that fails, whatever the
\* reason, is followed by exactly one create call, issued right after it.
C38_EnsureRepoNoOpWhenPresent ==
    cmd \in DeployCmds =>
        /\ Cardinality(Calls("repo.describe")) <= 1
        /\ \A k \in Calls("repo.describe") :
              /\ (Answered(k) /\ answers[k].ok) =>
                    /\ Calls("repo.create") = {}
                    /\ cloud.repo
                    /\ pc # "repo_describe" => EnsureRepoReturnedOk
              /\ (Answered(k) /\ ~answers[k].ok /\ pc # "repo_describe") =>
                    Calls("repo.create") = {k + 1}

\* C38 witness: both cases, each past ensure_artifact_repo: the probe found
\* the repository and the build was submitted without a create, or the probe
\* failed although the repository was there and one create was issued.
C38_Witness ==
    /\ cmd = "run" /\ Done /\ cloud.repo
    /\ \E k \in Calls("repo.describe") :
          /\ ~answers[k].ok /\ answers[k].err # "NOT_FOUND"
          /\ Calls("repo.create") = {k + 1}

\* The invocations that returned the resolution error.
ReturnedErr == {i \in Invocations : loc.tool[i].pc = "returned" /\ ~loc.tool[i].ret.ok}

\* A failed resolution leaves the cell empty and is the failure of the one
\* invocation that ran it.
FailureNotCached ==
    cmd = "mcp" =>
        /\ (loc.resolved_path = NONE) <=> (Positions("store") = {})
        /\ \A k \in Positions("fail") : \A j \in Positions("store") : k < j
        /\ Cardinality(ReturnedErr) = Cardinality(Positions("fail"))
        /\ \A i \in ReturnedErr :
              inp.cli_path = NONE /\ loc.tool[i].ret.err = "McpError::internal_error"

\* A stored path stays.
StoredPathKept == loc.resolved_path # NONE => loc.resolved_path' = loc.resolved_path

\* C39: a failed project-path resolution is not cached: the cell stays empty,
\* the tool call that ran it returns the error, and every failed tool call ran
\* a resolution of its own; once a path is stored it never changes for the rest
\* of the session, whatever the client answers to list_roots later.
C39_FailureNotCached == []FailureNotCached /\ [][StoredPathKept]_vars

\* C39 witness: without -p two resolutions failed one after the other, each
\* returning the error, and the third invocation found the cell empty and
\* stored the root the client then offered.
C39_Witness ==
    /\ cmd = "mcp" /\ inp.cli_path = NONE
    /\ Cardinality(ReturnedErr) = 2
    /\ Cardinality(Positions("resolve")) = 3
    /\ Cardinality(Positions("store")) = 1
    /\ loc.resolved_path = <<"/work/a">>

\* C40: deploy_pipeline::run and the MCP deploy tool are equivalent: given
\* the same project and the same outcome of every step, they start the same
\* operations in the same order, abort at the same step or both finish, and
\* push the same step lines in the same order.
C40_PipelinesEquivalent ==
    cmd = "both" =>
        /\ loc.twin = ops
        /\ out = steps
        /\ mcp_deploy(inp, fs, answers).status = deploy_pipeline_run(inp, fs, answers).status

====
